---- MODULE Spec2Model ----
(***************************************************************************)
(* The calculator reducer of src/src/App.tsx.                              *)
(*                                                                         *)
(* Strings are sequences of characters (one-character strings).  Three     *)
(* characters of the source are not ASCII and are written by code point:   *)
(* "U+00F7" is the division sign, "U+221A" the radical sign and "U+00B2"   *)
(* the superscript two.  Each is one character of the sequence.            *)
(*                                                                         *)
(* Numbers are IEEE doubles in the source.  The model carries the doubles  *)
(* it can follow exactly: NaN, the two infinities, and the finite values   *)
(* m / 10^e with m <= MaxNum and e <= MaxFrac (both zeros included).  A    *)
(* finite result the model cannot follow exactly (too large, too many      *)
(* fraction digits, or computed from operands that are not exact binary    *)
(* fractions) is the value Untracked; an action whose result would be      *)
(* Untracked is not taken.                                                 *)
(***************************************************************************)
EXTENDS Integers, Sequences, FiniteSets, TLC

\* Largest mantissa and largest number of fraction digits of a tracked value.
MaxNum == 9999
MaxFrac == 2

\* ------------------------------------------------------------------ strings

\* null (and undefined, which every test of the reducer treats alike): a
\* value that is no string of the program.
null == <<"null">>

DigitChars == <<"0", "1", "2", "3", "4", "5", "6", "7", "8", "9">>

IsDigit(c) == \E k \in 1..10 : DigitChars[k] = c

\* String.prototype.includes for a one-character needle.
includes(s, c) == \E k \in 1..Len(s) : s[k] = c

\* s.slice(0, -1)
sliceLast(s) == SubSeq(s, 1, Len(s) - 1)

\* s.startsWith(p)
startsWith(s, p) == Len(s) >= Len(p) /\ SubSeq(s, 1, Len(p)) = p

StrNaN == <<"N", "a", "N">>
StrInfinity == <<"I", "n", "f", "i", "n", "i", "t", "y">>

\* ------------------------------------------------------------------ numbers

NaN == [k |-> "nan", neg |-> FALSE, m |-> 0, e |-> 0]
Inf(neg) == [k |-> "inf", neg |-> neg, m |-> 0, e |-> 0]
Untracked == [k |-> "out", neg |-> FALSE, m |-> 0, e |-> 0]

RECURSIVE Pow10(_)
Pow10(k) == IF k = 0 THEN 1 ELSE 10 * Pow10(k - 1)

RECURSIVE Pow5(_)
Pow5(k) == IF k = 0 THEN 1 ELSE 5 * Pow5(k - 1)

\* m / 10^e without trailing fraction zeros.
RECURSIVE Strip(_, _)
Strip(m, e) == IF e > 0 /\ m % 10 = 0 THEN Strip(m \div 10, e - 1) ELSE <<m, e>>

\* The finite double (-1)^neg * m / 10^e, or Untracked outside the range.
Fin(neg, m, e) ==
    LET s == Strip(m, e)
    IN  IF s[1] > MaxNum \/ s[2] > MaxFrac THEN Untracked
        ELSE [k |-> "fin", neg |-> neg, m |-> s[1], e |-> s[2]]

IsFin(x) == x.k = "fin"
IsNaN(x) == x.k = "nan"
IsZero(x) == x.k = "fin" /\ x.m = 0
IsInteger(x) == x.k = "fin" /\ x.e = 0
Tracked(x) == x.k # "out"

\* A finite value that is exactly a double: an integer or a binary fraction.
Exact(x) == x.k = "fin" /\ x.m % Pow5(x.e) = 0

\* The signed mantissa of x at scale e >= x.e.
Scaled(x, e) == (IF x.neg THEN -1 ELSE 1) * x.m * Pow10(e - x.e)

Max(a, b) == IF a >= b THEN a ELSE b

\* x < y for tracked finite values (the zeros compare equal).
Less(x, y) == LET e == Max(x.e, y.e) IN Scaled(x, e) < Scaled(y, e)

Negate(x) == IF x.k \in {"nan", "out"} THEN x ELSE [x EXCEPT !.neg = ~x.neg]

\* Math.abs
Math_abs(x) == IF x.k \in {"nan", "out"} THEN x ELSE [x EXCEPT !.neg = FALSE]

\* The double a + b.
NumAdd(a, b) ==
    IF a.k = "out" \/ b.k = "out" THEN Untracked
    ELSE IF a.k = "nan" \/ b.k = "nan" THEN NaN
    ELSE IF a.k = "inf" /\ b.k = "inf" THEN (IF a.neg = b.neg THEN a ELSE NaN)
    ELSE IF a.k = "inf" THEN a
    ELSE IF b.k = "inf" THEN b
    ELSE IF ~(Exact(a) /\ Exact(b)) THEN Untracked
    ELSE LET e == Max(a.e, b.e)
             s == Scaled(a, e) + Scaled(b, e)
         IN  IF s = 0 THEN Fin(a.neg /\ b.neg, 0, 0) ELSE Fin(s < 0, IF s < 0 THEN -s ELSE s, e)

\* The double a - b.
NumSub(a, b) == NumAdd(a, Negate(b))

\* The double a * b.
NumMul(a, b) ==
    IF a.k = "out" \/ b.k = "out" THEN Untracked
    ELSE IF a.k = "nan" \/ b.k = "nan" THEN NaN
    ELSE IF a.k = "inf" \/ b.k = "inf"
         THEN (IF IsZero(a) \/ IsZero(b) THEN NaN ELSE Inf(a.neg # b.neg))
    ELSE IF ~(Exact(a) /\ Exact(b)) THEN Untracked
    ELSE Fin(a.neg # b.neg, a.m * b.m, a.e + b.e)

\* Long division num / den to at most MaxFrac fraction digits: <<q, f>> with
\* q / 10^f = num / den, or <<-1, 0>> when the quotient does not end there.
RECURSIVE LongDiv(_, _, _, _)
LongDiv(q, r, den, f) ==
    IF r = 0 THEN <<q, f>>
    ELSE IF f >= MaxFrac \/ q > MaxNum THEN <<-1, 0>>
    ELSE LongDiv(10 * q + (10 * r) \div den, (10 * r) % den, den, f + 1)

\* The double a / b: the correctly rounded quotient, whose shortest
\* round-trip rendering is the quotient itself when that is a short decimal.
NumDiv(a, b) ==
    IF a.k = "out" \/ b.k = "out" THEN Untracked
    ELSE IF a.k = "nan" \/ b.k = "nan" THEN NaN
    ELSE IF a.k = "inf" THEN (IF b.k = "inf" THEN NaN ELSE Inf(a.neg # b.neg))
    ELSE IF b.k = "inf" THEN Fin(a.neg # b.neg, 0, 0)
    ELSE IF IsZero(b) THEN (IF IsZero(a) THEN NaN ELSE Inf(a.neg # b.neg))
    ELSE IF ~(Exact(a) /\ Exact(b)) THEN Untracked
    ELSE LET num == a.m * Pow10(b.e)
             den == b.m * Pow10(a.e)
             d == LongDiv(num \div den, num % den, den, 0)
         IN  IF d[1] < 0 THEN Untracked ELSE Fin(a.neg # b.neg, d[1], d[2])

\* acc * base^n for naturals, left as soon as the product leaves the range.
RECURSIVE NatPow(_, _, _)
NatPow(base, n, acc) ==
    IF n = 0 \/ acc > MaxNum THEN acc ELSE NatPow(base, n - 1, acc * base)

\* Math.pow(a, b), followed for an integer base and a natural exponent.
Math_pow(a, b) ==
    IF a.k = "out" \/ b.k = "out" THEN Untracked
    ELSE IF IsZero(b) THEN Fin(FALSE, 1, 0)
    ELSE IF a.k = "nan" \/ b.k = "nan" THEN NaN
    ELSE IF IsInteger(a) /\ IsInteger(b) /\ ~b.neg
         THEN (IF a.m <= 1 THEN Fin(a.neg /\ b.m % 2 = 1, a.m, 0)
               ELSE Fin(a.neg /\ b.m % 2 = 1, NatPow(a.m, b.m, 1), 0))
    ELSE Untracked

\* The integer square root of n, or -1 when n is no perfect square.
RECURSIVE SqrtFrom(_, _)
SqrtFrom(n, r) == IF r * r = n THEN r ELSE IF r * r > n THEN -1 ELSE SqrtFrom(n, r + 1)

\* Math.sqrt, correctly rounded: followed where the root is itself tracked.
Math_sqrt(x) ==
    IF x.k \in {"out", "nan"} THEN x
    ELSE IF IsZero(x) THEN x
    ELSE IF x.neg THEN NaN
    ELSE IF x.k = "inf" THEN x
    ELSE IF Exact(x) /\ x.e % 2 = 0 /\ SqrtFrom(x.m, 0) >= 0
         THEN Fin(FALSE, SqrtFrom(x.m, 0), x.e \div 2)
    ELSE Untracked

\* Math.sin and Math.tan at the arguments whose result is known exactly.
Math_sin(x) ==
    IF x.k \in {"out", "nan"} THEN x
    ELSE IF x.k = "inf" THEN NaN
    ELSE IF IsZero(x) THEN x
    ELSE Untracked

Math_tan(x) == Math_sin(x)

\* Math.cos at the arguments whose result is known exactly.
Math_cos(x) ==
    IF x.k \in {"out", "nan"} THEN x
    ELSE IF x.k = "inf" THEN NaN
    ELSE IF IsZero(x) THEN Fin(FALSE, 1, 0)
    ELSE Untracked

\* Math.log and Math.log10 at the arguments whose result is known exactly.
Math_log(x) ==
    IF x.k \in {"out", "nan"} THEN x
    ELSE IF IsZero(x) THEN Inf(TRUE)
    ELSE IF x.neg THEN NaN
    ELSE IF x.k = "inf" THEN x
    ELSE IF x.m = 1 /\ x.e = 0 THEN Fin(FALSE, 0, 0)
    ELSE Untracked

Math_log10(x) == Math_log(x)

\* currentVal * (Math.PI / 180): the factor is no exact double, so only the
\* products that do not depend on its digits are followed.
ToRadians(x) ==
    IF x.k \in {"out", "nan", "inf"} \/ IsZero(x) THEN x ELSE Untracked

\* ------------------------------------------------------- parsing, rendering

\* The longest prefix of s made of digits.
RECURSIVE DigitPrefix(_)
DigitPrefix(s) ==
    IF s = <<>> \/ ~IsDigit(s[1]) THEN <<>> ELSE <<s[1]>> \o DigitPrefix(Tail(s))

RECURSIVE DigitsToNat(_)
DigitsToNat(ds) ==
    IF ds = <<>> THEN 0
    ELSE 10 * DigitsToNat(SubSeq(ds, 1, Len(ds) - 1))
             + (CHOOSE k \in 1..10 : DigitChars[k] = ds[Len(ds)]) - 1

\* Drops the zeros that do not count: leading ones, or trailing ones.
RECURSIVE DropLeadingZeros(_)
DropLeadingZeros(ds) ==
    IF ds # <<>> /\ ds[1] = "0" THEN DropLeadingZeros(Tail(ds)) ELSE ds

RECURSIVE DropTrailingZeros(_)
DropTrailingZeros(ds) ==
    IF ds # <<>> /\ ds[Len(ds)] = "0"
    THEN DropTrailingZeros(SubSeq(ds, 1, Len(ds) - 1)) ELSE ds

\* parseFloat: the longest prefix of s that is a decimal literal (an optional
\* sign, then Infinity or digits with an optional fraction), NaN when there
\* is none.  No string of the model holds an exponent part.
parseFloat(s) ==
    LET signed == s # <<>> /\ s[1] \in {"-", "+"}
        neg == s # <<>> /\ s[1] = "-"
        body == IF signed THEN Tail(s) ELSE s
        int == DigitPrefix(body)
        rest == SubSeq(body, Len(int) + 1, Len(body))
        frac == IF rest # <<>> /\ rest[1] = "." THEN DigitPrefix(Tail(rest)) ELSE <<>>
        i == DropLeadingZeros(int)
        f == DropTrailingZeros(frac)
    IN  IF startsWith(body, StrInfinity) THEN Inf(neg)
        ELSE IF int = <<>> /\ frac = <<>> THEN NaN
        ELSE IF Len(i) + Len(f) > 9 THEN Untracked
        ELSE Fin(neg, DigitsToNat(i \o f), Len(f))

RECURSIVE NatToDigits(_)
NatToDigits(n) ==
    IF n < 10 THEN <<DigitChars[n + 1]>>
    ELSE NatToDigits(n \div 10) \o <<DigitChars[(n % 10) + 1]>>

\* Number.prototype.toString of a tracked value: both zeros render "0", and
\* every tracked finite value lies in the range rendered without exponent.
\* The rendering of an Untracked value is not known: "?" stands for it.
toString(x) ==
    IF x.k = "out" THEN <<"?">>
    ELSE IF x.k = "nan" THEN StrNaN
    ELSE IF x.k = "inf" THEN (IF x.neg THEN <<"-">> ELSE <<>>) \o StrInfinity
    ELSE IF x.m = 0 THEN <<"0">>
    ELSE LET sign == IF x.neg THEN <<"-">> ELSE <<>>
             int == NatToDigits(x.m \div Pow10(x.e))
             fr == NatToDigits(x.m % Pow10(x.e))
             pad == [j \in 1..(x.e - Len(fr)) |-> "0"]
         IN  IF x.e = 0 THEN sign \o int ELSE sign \o int \o <<".">> \o pad \o fr

\* ------------------------------------------------------------------ actions

\* ACTIONS: the action types of the reducer.
ADD_DIGIT == "add-digit"
CHOOSE_OPERATION == "choose-operation"
CLEAR == "clear"
DELETE_DIGIT == "delete-digit"
EVALUATE == "evaluate"
PERCENT == "percent"
TOGGLE_SIGN == "toggle-sign"
CLEAR_HISTORY == "clear-history"
SET_HISTORY_ITEM == "set-history-item"
SCIENTIFIC_OPERATION == "scientific-operation"
TOGGLE_UNITS == "toggle-units"
SET_THEME == "set-theme"

\* An action { type, payload: { digit, operation } }; an absent field is null.
Action(type, digit, operation) ==
    [type |-> type, digit |-> digit, operation |-> operation]

\* The binary operators the operation buttons and the keyboard send.
OpAdd == <<"+">>
OpSub == <<"-">>
OpMul == <<"*">>
OpDiv == <<"U+00F7">>
OpPow == <<"^">>
BinaryOps == {OpAdd, OpSub, OpMul, OpDiv, OpPow}

\* The function names the scientific buttons and the keyboard send.
FnSqrt == <<"s", "q", "r", "t">>
FnSquare == <<"s", "q", "u", "a", "r", "e">>
FnReciprocal == <<"r", "e", "c", "i", "p", "r", "o", "c", "a", "l">>
FnAbs == <<"a", "b", "s">>
FnSin == <<"s", "i", "n">>
FnCos == <<"c", "o", "s">>
FnTan == <<"t", "a", "n">>
FnLog == <<"l", "o", "g">>
FnLn == <<"l", "n">>
FnFactorial == <<"f", "a", "c", "t", "o", "r", "i", "a", "l">>
FnPi == <<"p", "i">>
FnE == <<"e">>
UnaryFns ==
    {FnSqrt, FnSquare, FnReciprocal, FnAbs, FnSin, FnCos, FnTan, FnLog, FnLn, FnFactorial}
ScientificFns == UnaryFns \cup {FnPi, FnE}

ThemeOcean == <<"o", "c", "e", "a", "n">>
ThemeAmber == <<"a", "m", "b", "e", "r">>

\* Math.PI.toString() and Math.E.toString()
StrPi == <<"3", ".", "1", "4", "1", "5", "9", "2", "6", "5", "3", "5", "8", "9", "7", "9", "3">>
StrE == <<"2", ".", "7", "1", "8", "2", "8", "1", "8", "2", "8", "4", "5", "9", "0", "4", "5">>

\* ------------------------------------------------------------------ reducer

One == [k |-> "fin", neg |-> FALSE, m |-> 1, e |-> 0]
Two == [k |-> "fin", neg |-> FALSE, m |-> 2, e |-> 0]
Hundred == [k |-> "fin", neg |-> FALSE, m |-> 100, e |-> 0]

\* Largest argument whose factorial loop is followed to its end.
MaxFact == 6

\* i <= n of the factorial loop.  i counts up from 2 and is never NaN; once
\* it is past MaxFact + 1 it is above every followed finite n, and below
\* +Infinity.
LoopCond(i, n) ==
    IF n.k = "nan" THEN FALSE
    ELSE IF n.k = "inf" THEN ~n.neg
    ELSE IF i.k = "out" THEN FALSE
    ELSE ~Less(n, i)

\* res *= i
LoopRes(i, res) == NumMul(res, i)

\* i++, followed up to MaxFact + 1.
LoopInc(i) == IF i.k = "out" \/ i.m > MaxFact THEN Untracked ELSE NumAdd(i, One)

\* Whether the loop of factorial(n) is followed: n is not finite, or at most
\* MaxFact.
LoopFollowed(n) ==
    n.k \in {"nan", "inf"} \/ (n.k = "fin" /\ ~Less(Fin(FALSE, MaxFact, 0), n))

\* The loop of factorial from (i, res), for a bound the loop ends on.
RECURSIVE FactorialLoop(_, _, _)
FactorialLoop(n, i, res) ==
    IF res.k = "out" \/ i.k = "out" THEN Untracked
    ELSE IF LoopCond(i, n) THEN FactorialLoop(n, LoopInc(i), LoopRes(i, res))
    ELSE res

\* n < 0 and n === 0 of factorial.
BelowZero(n) == (n.k = "inf" /\ n.neg) \/ (n.k = "fin" /\ n.neg /\ n.m # 0)

\* The value factorial(n) returns when its loop ends: every n but +Infinity.
factorial(n) ==
    IF n.k = "out" THEN Untracked
    ELSE IF BelowZero(n) THEN NaN
    ELSE IF IsZero(n) THEN One
    ELSE IF ~LoopFollowed(n) THEN Untracked
    ELSE FactorialLoop(n, Two, One)

\* The computation with the operands of the subtraction exchanged.
computationSubReversed(prev, current, operation) ==
    IF operation = OpAdd THEN NumAdd(prev, current)
    ELSE IF operation = OpSub THEN NumSub(current, prev)
    ELSE IF operation = OpMul THEN NumMul(prev, current)
    ELSE IF operation = OpDiv THEN NumDiv(prev, current)
    ELSE IF operation = OpPow THEN Math_pow(prev, current)
    ELSE Fin(FALSE, 0, 0)

\* The number evaluate computes before rendering it.
computation(prev, current, operation) ==
    IF operation = OpAdd THEN NumAdd(prev, current)
    ELSE IF operation = OpSub THEN NumSub(prev, current)
    ELSE IF operation = OpMul THEN NumMul(prev, current)
    ELSE IF operation = OpDiv THEN NumDiv(prev, current)
    ELSE IF operation = OpPow THEN Math_pow(prev, current)
    ELSE Fin(FALSE, 0, 0)

OrEmpty(s) == IF s = null THEN <<>> ELSE s

\* evaluate without the isNaN test: the computation is rendered as it is.
evaluateNoNaNTest(state) ==
    LET prev == parseFloat(OrEmpty(state.previousOperand))
        current == parseFloat(OrEmpty(state.currentOperand))
    IN  toString(computation(prev, current, state.operation))

\* evaluate(state): the rendered result of the pending binary operation.
evaluate(state) ==
    LET prev == parseFloat(OrEmpty(state.previousOperand))
        current == parseFloat(OrEmpty(state.currentOperand))
    IN  IF IsNaN(prev) \/ IsNaN(current) THEN <<>>
        ELSE toString(computation(prev, current, state.operation))

\* Whether the model follows evaluate(state).
EvaluateTracked(state) ==
    LET prev == parseFloat(OrEmpty(state.previousOperand))
        current == parseFloat(OrEmpty(state.currentOperand))
    IN  IsNaN(prev) \/ IsNaN(current)
        \/ Tracked(computation(prev, current, state.operation))

\* [entry, ...history].slice(0, 10)
HistoryLimit == 10

\* The push without .slice(0, 10).
PushHistoryUnsliced(history, expression, result) ==
    <<[expression |-> expression, result |-> result]>> \o history

\* The push at the wrong end: [...history, entry].slice(0, 10).
PushHistoryAtEnd(history, expression, result) ==
    LET all == history \o <<[expression |-> expression, result |-> result]>>
    IN  SubSeq(all, 1, IF Len(all) < 10 THEN Len(all) ELSE 10)

PushHistory(history, expression, result) ==
    LET all == <<[expression |-> expression, result |-> result]>> \o history
    IN  SubSeq(all, 1, IF Len(all) < HistoryLimit THEN Len(all) ELSE HistoryLimit)

\* ADD_DIGIT without the test for a second decimal point.
AddDigitNoPointTest(state, payload) ==
    IF state.overwrite
    THEN [state EXCEPT !.currentOperand = payload.digit, !.overwrite = FALSE]
    ELSE IF payload.digit = <<"0">> /\ state.currentOperand = <<"0">> THEN state
    ELSE [state EXCEPT !.currentOperand = OrEmpty(state.currentOperand) \o payload.digit]

\* ADD_DIGIT that appends to a result instead of replacing it.
AddDigitAppends(state, payload) ==
    IF payload.digit = <<"0">> /\ state.currentOperand = <<"0">> THEN state
    ELSE IF payload.digit = <<".">> /\ state.currentOperand # null
            /\ includes(state.currentOperand, ".") THEN state
    ELSE [state EXCEPT !.currentOperand = OrEmpty(state.currentOperand) \o payload.digit,
                       !.overwrite = FALSE]

\* case ACTIONS.ADD_DIGIT
AddDigitCase(state, payload) ==
    IF state.overwrite
    THEN [state EXCEPT !.currentOperand = payload.digit, !.overwrite = FALSE]
    ELSE IF payload.digit = <<"0">> /\ state.currentOperand = <<"0">> THEN state
    ELSE IF payload.digit = <<".">> /\ state.currentOperand # null
            /\ includes(state.currentOperand, ".") THEN state
    ELSE [state EXCEPT !.currentOperand = OrEmpty(state.currentOperand) \o payload.digit]

\* CHOOSE_OPERATION that stages the new operand without computing the pending
\* operation.
ChooseOperationNoChaining(state, payload) ==
    IF state.currentOperand = null /\ state.previousOperand = null THEN state
    ELSE IF state.currentOperand = null
    THEN [state EXCEPT !.operation = payload.operation]
    ELSE [state EXCEPT !.operation = payload.operation,
                       !.previousOperand = state.currentOperand,
                       !.currentOperand = null]

\* CHOOSE_OPERATION without the test for two empty operands.
ChooseOperationNoGuard(state, payload) ==
    IF state.currentOperand = null
    THEN [state EXCEPT !.operation = payload.operation]
    ELSE IF state.previousOperand = null
    THEN [state EXCEPT !.operation = payload.operation,
                       !.previousOperand = state.currentOperand,
                       !.currentOperand = null]
    ELSE [state EXCEPT !.previousOperand = evaluate(state),
                       !.operation = payload.operation,
                       !.currentOperand = null]

\* CHOOSE_OPERATION whose change of operator also clears the overwrite flag.
ChooseOperationClearsOverwrite(state, payload) ==
    IF state.currentOperand = null /\ state.previousOperand = null THEN state
    ELSE IF state.currentOperand = null
    THEN [state EXCEPT !.operation = payload.operation, !.overwrite = FALSE]
    ELSE IF state.previousOperand = null
    THEN [state EXCEPT !.operation = payload.operation,
                       !.previousOperand = state.currentOperand,
                       !.currentOperand = null]
    ELSE [state EXCEPT !.previousOperand = evaluate(state),
                       !.operation = payload.operation,
                       !.currentOperand = null]

\* CHOOSE_OPERATION that stages the first operand as the rendering of its
\* number instead of the text typed.
ChooseOperationNormalises(state, payload) ==
    IF state.currentOperand = null /\ state.previousOperand = null THEN state
    ELSE IF state.currentOperand = null
    THEN [state EXCEPT !.operation = payload.operation]
    ELSE IF state.previousOperand = null
    THEN [state EXCEPT !.operation = payload.operation,
                       !.previousOperand = toString(parseFloat(state.currentOperand)),
                       !.currentOperand = null]
    ELSE [state EXCEPT !.previousOperand = evaluate(state),
                       !.operation = payload.operation,
                       !.currentOperand = null]

\* CHOOSE_OPERATION that records the intermediate result of a chain in the
\* history.
ChooseOperationRecordsChain(state, payload) ==
    IF state.currentOperand = null /\ state.previousOperand = null THEN state
    ELSE IF state.currentOperand = null
    THEN [state EXCEPT !.operation = payload.operation]
    ELSE IF state.previousOperand = null
    THEN [state EXCEPT !.operation = payload.operation,
                       !.previousOperand = state.currentOperand,
                       !.currentOperand = null]
    ELSE [state EXCEPT !.previousOperand = evaluate(state),
                       !.operation = payload.operation,
                       !.currentOperand = null,
                       !.history = PushHistory(state.history,
                                       state.previousOperand \o <<" ">> \o state.operation
                                           \o <<" ">> \o state.currentOperand,
                                       evaluate(state))]

\* case ACTIONS.CHOOSE_OPERATION
ChooseOperationCase(state, payload) ==
    IF state.currentOperand = null /\ state.previousOperand = null THEN state
    ELSE IF state.currentOperand = null
    THEN [state EXCEPT !.operation = payload.operation]
    ELSE IF state.previousOperand = null
    THEN [state EXCEPT !.operation = payload.operation,
                       !.previousOperand = state.currentOperand,
                       !.currentOperand = null]
    ELSE [state EXCEPT !.previousOperand = evaluate(state),
                       !.operation = payload.operation,
                       !.currentOperand = null]

\* scientificResult for the unary functions, before rendering.
ScientificResult(state, fn) ==
    LET currentVal == parseFloat(state.currentOperand)
        angle == IF state.isRadians THEN currentVal ELSE ToRadians(currentVal)
    IN  IF fn = FnSqrt THEN Math_sqrt(currentVal)
        ELSE IF fn = FnSquare THEN Math_pow(currentVal, Two)
        ELSE IF fn = FnReciprocal THEN NumDiv(One, currentVal)
        ELSE IF fn = FnAbs THEN Math_abs(currentVal)
        ELSE IF fn = FnSin THEN Math_sin(angle)
        ELSE IF fn = FnCos THEN Math_cos(angle)
        ELSE IF fn = FnTan THEN Math_tan(angle)
        ELSE IF fn = FnLog THEN Math_log10(currentVal)
        ELSE IF fn = FnLn THEN Math_log(currentVal)
        ELSE factorial(currentVal)

\* scientificExpression
ScientificExpression(operand, fn) ==
    IF fn = FnSqrt THEN <<"U+221A", "(">> \o operand \o <<")">>
    ELSE IF fn = FnSquare THEN <<"(">> \o operand \o <<")", "U+00B2">>
    ELSE IF fn = FnReciprocal THEN <<"1", "/", "(">> \o operand \o <<")">>
    ELSE IF fn = FnAbs THEN <<"|">> \o operand \o <<"|">>
    ELSE IF fn = FnSin THEN <<"s", "i", "n", "(">> \o operand \o <<")">>
    ELSE IF fn = FnCos THEN <<"c", "o", "s", "(">> \o operand \o <<")">>
    ELSE IF fn = FnTan THEN <<"t", "a", "n", "(">> \o operand \o <<")">>
    ELSE IF fn = FnLog THEN <<"l", "o", "g", "(">> \o operand \o <<")">>
    ELSE IF fn = FnLn THEN <<"l", "n", "(">> \o operand \o <<")">>
    ELSE operand \o <<"!">>

\* The return of a unary function that leaves the overwrite flag as it was.
ScientificReturnKeepsOverwrite(state, fn, scientificResult) ==
    LET resString == toString(scientificResult)
    IN  [state EXCEPT !.currentOperand = resString,
                      !.history = PushHistory(state.history,
                                      ScientificExpression(state.currentOperand, fn),
                                      resString)]

\* The return of case ACTIONS.SCIENTIFIC_OPERATION for a unary function whose
\* number is scientificResult.
ScientificReturn(state, fn, scientificResult) ==
    LET resString == toString(scientificResult)
    IN  [state EXCEPT !.currentOperand = resString,
                      !.overwrite = TRUE,
                      !.history = PushHistory(state.history,
                                      ScientificExpression(state.currentOperand, fn),
                                      resString)]

\* SCIENTIFIC_OPERATION that returns the state for every function, the two
\* constants included, when there is no current operand.
ScientificOperationNeedsOperand(state, payload) ==
    IF state.currentOperand = null THEN state
    ELSE IF payload.operation = FnPi
    THEN [state EXCEPT !.currentOperand = StrPi, !.overwrite = TRUE]
    ELSE IF payload.operation = FnE
    THEN [state EXCEPT !.currentOperand = StrE, !.overwrite = TRUE]
    ELSE IF payload.operation \in UnaryFns
    THEN ScientificReturn(state, payload.operation,
                          ScientificResult(state, payload.operation))
    ELSE state

\* case ACTIONS.SCIENTIFIC_OPERATION
ScientificOperationCase(state, payload) ==
    IF payload.operation = FnPi
    THEN [state EXCEPT !.currentOperand = StrPi, !.overwrite = TRUE]
    ELSE IF payload.operation = FnE
    THEN [state EXCEPT !.currentOperand = StrE, !.overwrite = TRUE]
    ELSE IF state.currentOperand = null THEN state
    ELSE IF payload.operation \in UnaryFns
    THEN ScientificReturn(state, payload.operation,
                          ScientificResult(state, payload.operation))
    ELSE state

\* CLEAR that resets the history too.
ClearWipesHistory(state) ==
    [state EXCEPT !.currentOperand = null, !.previousOperand = null,
                  !.operation = null, !.overwrite = FALSE, !.history = <<>>]

\* CLEAR that also goes back to the initial angle unit.
ClearResetsUnits(state) ==
    [state EXCEPT !.currentOperand = null, !.previousOperand = null,
                  !.operation = null, !.overwrite = FALSE, !.isRadians = TRUE]

\* CLEAR that leaves the pending operator in place.
ClearKeepsOperation(state) ==
    [state EXCEPT !.currentOperand = null, !.previousOperand = null,
                  !.overwrite = FALSE]

\* case ACTIONS.CLEAR
ClearCase(state) ==
    [state EXCEPT !.currentOperand = null, !.previousOperand = null,
                  !.operation = null, !.overwrite = FALSE]

\* DELETE_DIGIT without the test of the overwrite flag: a result is trimmed
\* like typed text.
DeleteDigitTrimsResult(state) ==
    IF state.currentOperand = null THEN state
    ELSE IF Len(state.currentOperand) = 1 THEN [state EXCEPT !.currentOperand = null]
    ELSE [state EXCEPT !.currentOperand = sliceLast(state.currentOperand)]

\* DELETE_DIGIT without the test for a one-character operand.
DeleteDigitNoLengthTest(state) ==
    IF state.overwrite
    THEN [state EXCEPT !.overwrite = FALSE, !.currentOperand = null]
    ELSE IF state.currentOperand = null THEN state
    ELSE [state EXCEPT !.currentOperand = sliceLast(state.currentOperand)]

\* DELETE_DIGIT that clears a result and leaves the overwrite flag set.
DeleteDigitKeepsOverwrite(state) ==
    IF state.overwrite
    THEN [state EXCEPT !.currentOperand = null]
    ELSE IF state.currentOperand = null THEN state
    ELSE IF Len(state.currentOperand) = 1 THEN [state EXCEPT !.currentOperand = null]
    ELSE [state EXCEPT !.currentOperand = sliceLast(state.currentOperand)]

\* case ACTIONS.DELETE_DIGIT
DeleteDigitCase(state) ==
    IF state.overwrite
    THEN [state EXCEPT !.overwrite = FALSE, !.currentOperand = null]
    ELSE IF state.currentOperand = null THEN state
    ELSE IF Len(state.currentOperand) = 1 THEN [state EXCEPT !.currentOperand = null]
    ELSE [state EXCEPT !.currentOperand = sliceLast(state.currentOperand)]

\* PERCENT that records nothing in the history.
PercentNoEntry(state) ==
    IF state.currentOperand = null THEN state
    ELSE LET value == parseFloat(state.currentOperand)
             percentRes == toString(NumDiv(value, Hundred))
         IN  [state EXCEPT !.currentOperand = percentRes, !.overwrite = TRUE]

\* PERCENT that drops the pending operator and its left operand.
PercentClearsPending(state) ==
    IF state.currentOperand = null THEN state
    ELSE LET value == parseFloat(state.currentOperand)
             percentRes == toString(NumDiv(value, Hundred))
         IN  [state EXCEPT !.currentOperand = percentRes,
                           !.overwrite = TRUE,
                           !.previousOperand = null,
                           !.operation = null,
                           !.history = PushHistory(state.history,
                                           state.currentOperand \o <<"%">>,
                                           percentRes)]

\* case ACTIONS.PERCENT
PercentCase(state) ==
    IF state.currentOperand = null THEN state
    ELSE LET value == parseFloat(state.currentOperand)
             percentRes == toString(NumDiv(value, Hundred))
         IN  [state EXCEPT !.currentOperand = percentRes,
                           !.overwrite = TRUE,
                           !.history = PushHistory(state.history,
                                           state.currentOperand \o <<"%">>,
                                           percentRes)]

\* TOGGLE_SIGN that treats its result like that of a calculation: it sets
\* the overwrite flag.
ToggleSignSetsOverwrite(state) ==
    IF state.currentOperand = null THEN state
    ELSE [state EXCEPT !.currentOperand =
              toString(Negate(parseFloat(state.currentOperand))),
                       !.overwrite = TRUE]

\* case ACTIONS.TOGGLE_SIGN
ToggleSignCase(state) ==
    IF state.currentOperand = null THEN state
    ELSE [state EXCEPT !.currentOperand =
              toString(Negate(parseFloat(state.currentOperand)))]

\* EVALUATE whose guard forgets the current operand.
EvaluateNoOperandTest(state) ==
    IF state.operation = null \/ state.previousOperand = null
    THEN state
    ELSE LET result == evaluate(state)
             expression == state.previousOperand \o <<" ">> \o state.operation
                               \o <<" ">> \o OrEmpty(state.currentOperand)
         IN  [state EXCEPT !.overwrite = TRUE,
                           !.previousOperand = null,
                           !.operation = null,
                           !.currentOperand = result,
                           !.history = PushHistory(state.history, expression, result)]

\* EVALUATE that leaves the overwrite flag as it was.
EvaluateKeepsOverwrite(state) ==
    IF state.operation = null \/ state.currentOperand = null
       \/ state.previousOperand = null
    THEN state
    ELSE LET result == evaluate(state)
             expression == state.previousOperand \o <<" ">> \o state.operation
                               \o <<" ">> \o state.currentOperand
         IN  [state EXCEPT !.previousOperand = null,
                           !.operation = null,
                           !.currentOperand = result,
                           !.history = PushHistory(state.history, expression, result)]

\* EVALUATE with a guard against a zero divisor: the state is returned.
EvaluateGuardsZeroDivisor(state) ==
    IF state.operation = null \/ state.currentOperand = null
       \/ state.previousOperand = null
    THEN state
    ELSE IF state.operation = OpDiv /\ IsZero(parseFloat(state.currentOperand))
    THEN state
    ELSE LET result == evaluate(state)
             expression == state.previousOperand \o <<" ">> \o state.operation
                               \o <<" ">> \o state.currentOperand
         IN  [state EXCEPT !.overwrite = TRUE,
                           !.previousOperand = null,
                           !.operation = null,
                           !.currentOperand = result,
                           !.history = PushHistory(state.history, expression, result)]

\* EVALUATE that writes its entry over the newest one instead of adding it.
EvaluateReplacesNewest(state) ==
    IF state.operation = null \/ state.currentOperand = null
       \/ state.previousOperand = null
    THEN state
    ELSE LET result == evaluate(state)
             expression == state.previousOperand \o <<" ">> \o state.operation
                               \o <<" ">> \o state.currentOperand
             entry == [expression |-> expression, result |-> result]
         IN  [state EXCEPT !.overwrite = TRUE,
                           !.previousOperand = null,
                           !.operation = null,
                           !.currentOperand = result,
                           !.history = IF state.history = <<>> THEN <<entry>>
                                       ELSE <<entry>> \o Tail(state.history)]

\* EVALUATE that leaves the operator and its left operand staged.
EvaluateKeepsPending(state) ==
    IF state.operation = null \/ state.currentOperand = null
       \/ state.previousOperand = null
    THEN state
    ELSE LET result == evaluate(state)
             expression == state.previousOperand \o <<" ">> \o state.operation
                               \o <<" ">> \o state.currentOperand
         IN  [state EXCEPT !.overwrite = TRUE,
                           !.currentOperand = result,
                           !.history = PushHistory(state.history, expression, result)]

\* case ACTIONS.EVALUATE
EvaluateCase(state) ==
    IF state.operation = null \/ state.currentOperand = null
       \/ state.previousOperand = null
    THEN state
    ELSE LET result == evaluate(state)
             expression == state.previousOperand \o <<" ">> \o state.operation
                               \o <<" ">> \o state.currentOperand
         IN  [state EXCEPT !.overwrite = TRUE,
                           !.previousOperand = null,
                           !.operation = null,
                           !.currentOperand = result,
                           !.history = PushHistory(state.history, expression, result)]

\* SET_HISTORY_ITEM that starts a new calculation from the recalled value.
SetHistoryItemRestarts(state, payload) ==
    [state EXCEPT !.currentOperand = payload.digit, !.overwrite = TRUE,
                  !.previousOperand = null, !.operation = null]

\* case ACTIONS.SET_HISTORY_ITEM
SetHistoryItemCase(state, payload) ==
    [state EXCEPT !.currentOperand = payload.digit, !.overwrite = TRUE]

\* CLEAR_HISTORY that resets the calculator as well.
ClearHistoryResets(state) ==
    [state EXCEPT !.history = <<>>, !.currentOperand = null,
                  !.previousOperand = null, !.operation = null,
                  !.overwrite = FALSE]

\* case ACTIONS.CLEAR_HISTORY
ClearHistoryCase(state) == [state EXCEPT !.history = <<>>]

\* case ACTIONS.TOGGLE_UNITS
ToggleUnitsCase(state) == [state EXCEPT !.isRadians = ~state.isRadians]

\* case ACTIONS.SET_THEME
SetThemeCase(state, payload) == [state EXCEPT !.theme = payload.operation]

\* A reducer whose default case resets the calculator.
reducerDefaultResets(state, a) ==
    IF a.type = ADD_DIGIT THEN AddDigitCase(state, a)
    ELSE IF a.type = CHOOSE_OPERATION THEN ChooseOperationCase(state, a)
    ELSE IF a.type = SCIENTIFIC_OPERATION THEN ScientificOperationCase(state, a)
    ELSE IF a.type = CLEAR THEN ClearCase(state)
    ELSE IF a.type = DELETE_DIGIT THEN DeleteDigitCase(state)
    ELSE IF a.type = PERCENT THEN PercentCase(state)
    ELSE IF a.type = TOGGLE_SIGN THEN ToggleSignCase(state)
    ELSE IF a.type = EVALUATE THEN EvaluateCase(state)
    ELSE IF a.type = SET_HISTORY_ITEM THEN SetHistoryItemCase(state, a)
    ELSE IF a.type = CLEAR_HISTORY THEN ClearHistoryCase(state)
    ELSE IF a.type = TOGGLE_UNITS THEN ToggleUnitsCase(state)
    ELSE IF a.type = SET_THEME THEN SetThemeCase(state, a)
    ELSE ClearCase(state)

\* reducer(state, { type, payload }), for every action whose reduction returns.
reducer(state, a) ==
    IF a.type = ADD_DIGIT THEN AddDigitCase(state, a)
    ELSE IF a.type = CHOOSE_OPERATION THEN ChooseOperationCase(state, a)
    ELSE IF a.type = SCIENTIFIC_OPERATION THEN ScientificOperationCase(state, a)
    ELSE IF a.type = CLEAR THEN ClearCase(state)
    ELSE IF a.type = DELETE_DIGIT THEN DeleteDigitCase(state)
    ELSE IF a.type = PERCENT THEN PercentCase(state)
    ELSE IF a.type = TOGGLE_SIGN THEN ToggleSignCase(state)
    ELSE IF a.type = EVALUATE THEN EvaluateCase(state)
    ELSE IF a.type = SET_HISTORY_ITEM THEN SetHistoryItemCase(state, a)
    ELSE IF a.type = CLEAR_HISTORY THEN ClearHistoryCase(state)
    ELSE IF a.type = TOGGLE_UNITS THEN ToggleUnitsCase(state)
    ELSE IF a.type = SET_THEME THEN SetThemeCase(state, a)
    ELSE state

\* -------------------------------------------------------------------- state

VARIABLES
    state,    \* the reducer's state: the first element of useReducer's pair
    before,   \* the state the last dispatched action was reduced from
    action,   \* the action dispatched last: the reducer's second argument
    steps,    \* how many dispatched actions the reducer has returned from
    pc,       \* "idle", or "factorial" while the reducer runs factorial's loop
    i,        \* factorial's loop counter
    res,      \* factorial's accumulator
    showAi,   \* whether the assistant's panel is mounted
    isLoading, \* the mounted assistant's isLoading
    messages, \* the mounted assistant's messages, after the greeting
    pending,  \* the assistant's requests in flight, in the order issued
    storage   \* localStorage: the texts under calc-history, calc-units, calc-theme

\* The assistant's part of the state.
aiVars == <<showAi, isLoading, messages, pending>>

vars == <<state, before, action, steps, pc, i, res, showAi, isLoading, messages, pending,
          storage>>

\* The state useReducer starts from, for the three values read from storage.
InitialState(history, isRadians, theme) ==
    [currentOperand |-> null, previousOperand |-> null, operation |-> null,
     overwrite |-> FALSE, history |-> history, isRadians |-> isRadians,
     theme |-> theme]

NoAction == Action("", null, null)

\* JSON.stringify of a history: the strings of the calculator hold neither
\* quotes nor backslashes, so none is escaped.
RECURSIVE stringify(_)
stringify(history) ==
    LET quoted(str) == <<"\"">> \o str \o <<"\"">>
        entry(e) == <<"{", "\"expression\":">> \o quoted(e.expression)
                        \o <<",", "\"result\":">> \o quoted(e.result) \o <<"}">>
    IN  IF history = <<>> THEN <<"[", "]">>
        ELSE <<"[">> \o entry(history[1])
                \o (IF Len(history) = 1 THEN <<>> ELSE <<",">>)
                \o Tail(stringify(Tail(history)))

\* JSON.parse of a stored history, read from its token at `pos` (2 is the
\* token after the opening bracket).
RECURSIVE parse(_, _)
parse(text, pos) ==
    IF text[pos] = "]" THEN <<>>
    ELSE LET quote(from) == CHOOSE q \in from..Len(text) :
                                /\ text[q] = "\""
                                /\ \A r \in from..(q - 1) : text[r] # "\""
             q1 == quote(pos + 3)
             q2 == quote(q1 + 4)
             entry == [expression |-> SubSeq(text, pos + 3, q1 - 1),
                       result |-> SubSeq(text, q1 + 4, q2 - 1)]
         IN  <<entry>> \o parse(text, IF text[q2 + 2] = "," THEN q2 + 3 ELSE q2 + 2)

\* What the effect writes: the three items of localStorage.
Persisted(s) ==
    [history |-> stringify(s.history),
     units |-> IF s.isRadians THEN <<"t", "r", "u", "e">> ELSE <<"f", "a", "l", "s", "e">>,
     theme |-> s.theme]

\* Whether the effect's dependencies [history, isRadians, theme] change when
\* the reducer returns from `a`: a new history array (every push and every
\* CLEAR_HISTORY builds one), another unit or another theme.
Rewrites(s, a) ==
    \/ a.type = CLEAR_HISTORY
    \/ a.type = PERCENT /\ s.currentOperand # null
    \/ a.type = EVALUATE /\ s.operation # null /\ s.currentOperand # null
            /\ s.previousOperand # null
    \/ a.type = SCIENTIFIC_OPERATION /\ s.currentOperand # null
            /\ a.operation \in UnaryFns
    \/ a.type = TOGGLE_UNITS
    \/ a.type = SET_THEME /\ a.operation # s.theme

\* A session taken up in the calculator state s, the assistant's panel closed.
InitFrom(s) ==
    /\ state = s
    /\ before = s
    /\ storage = Persisted(s)
    /\ action = NoAction
    /\ steps = 0
    /\ pc = "idle"
    /\ i = One
    /\ res = One
    /\ showAi = FALSE
    /\ isLoading = FALSE
    /\ messages = <<>>
    /\ pending = <<>>

\* Whether the model follows every number the reduction of `a` computes.
Follows(s, a) ==
    IF a.type \in {CHOOSE_OPERATION, EVALUATE}
    THEN s.currentOperand = null \/ s.previousOperand = null \/ EvaluateTracked(s)
    ELSE IF a.type = SCIENTIFIC_OPERATION /\ a.operation \in UnaryFns
    THEN s.currentOperand = null \/ Tracked(ScientificResult(s, a.operation))
    ELSE IF a.type = PERCENT
    THEN s.currentOperand = null \/ Tracked(NumDiv(parseFloat(s.currentOperand), Hundred))
    ELSE IF a.type = TOGGLE_SIGN
    THEN s.currentOperand = null \/ Tracked(parseFloat(s.currentOperand))
    ELSE TRUE

\* Whether reducing `a` runs the loop of factorial.
RunsLoop(s, a) ==
    /\ a.type = SCIENTIFIC_OPERATION
    /\ a.operation = FnFactorial
    /\ s.currentOperand # null
    /\ LET n == parseFloat(s.currentOperand) IN ~BelowZero(n) /\ ~IsZero(n)

\* The reducer called with `a`, for an action it returns from without
\* looping.
Reduce(a) ==
    /\ pc = "idle"
    /\ ~RunsLoop(state, a)
    /\ Follows(state, a)
    /\ state' = reducer(state, a)
    /\ before' = state
    /\ action' = a
    /\ steps' = steps + 1
    /\ storage' = IF Rewrites(state, a) THEN Persisted(state') ELSE storage
    /\ UNCHANGED <<pc, i, res>>

\* dispatch(a) from a button or key of the calculator.
Dispatch(a) == Reduce(a) /\ UNCHANGED aiVars

\* dispatch(a) for factorial up to the head of its loop.
FactorialCall ==
    LET a == Action(SCIENTIFIC_OPERATION, null, FnFactorial)
        n == parseFloat(OrEmpty(state.currentOperand))
    IN  /\ pc = "idle"
        /\ RunsLoop(state, a)
        /\ LoopFollowed(n)
        /\ (n.k = "inf" \/ Tracked(factorial(n)))
        /\ pc' = "factorial"
        /\ i' = Two
        /\ res' = One
        /\ action' = a
        /\ before' = state
        /\ UNCHANGED <<state, steps, storage>>
        /\ UNCHANGED aiVars

\* One iteration of for (let i = 2; i <= n; i++) res *= i.
FactorialStep ==
    /\ pc = "factorial"
    /\ LoopCond(i, parseFloat(state.currentOperand))
    /\ res' = LoopRes(i, res)
    /\ i' = LoopInc(i)
    /\ UNCHANGED <<state, before, action, steps, pc, storage>>
    /\ UNCHANGED aiVars

\* The loop's exit: factorial returns res and the reducer returns.
FactorialReturn ==
    /\ pc = "factorial"
    /\ ~LoopCond(i, parseFloat(state.currentOperand))
    /\ state' = ScientificReturn(state, FnFactorial, res)
    /\ pc' = "idle"
    /\ i' = One
    /\ res' = One
    /\ steps' = steps + 1
    /\ storage' = Persisted(state')
    /\ UNCHANGED <<before, action>>
    /\ UNCHANGED aiVars

\* Longest operand typed digit by digit.
MaxLen == 3

AddDigit(d) ==
    /\ state.overwrite \/ Len(OrEmpty(state.currentOperand)) < MaxLen
    /\ Dispatch(Action(ADD_DIGIT, d, null))

ChooseOperation(op) == Dispatch(Action(CHOOSE_OPERATION, null, op))

ScientificOperation(fn) ==
    \/ Dispatch(Action(SCIENTIFIC_OPERATION, null, fn))
    \/ fn = FnFactorial /\ FactorialCall

Clear == Dispatch(Action(CLEAR, null, null))

DeleteDigit == Dispatch(Action(DELETE_DIGIT, null, null))

Percent == Dispatch(Action(PERCENT, null, null))

ToggleSign == Dispatch(Action(TOGGLE_SIGN, null, null))

Evaluate == Dispatch(Action(EVALUATE, null, null))

\* A click on a history entry: its result is recalled.
RecallHistory ==
    \E k \in 1..Len(state.history) :
        Dispatch(Action(SET_HISTORY_ITEM, state.history[k].result, null))

ClearHistory == Dispatch(Action(CLEAR_HISTORY, null, null))

\* The unit buttons dispatch only when they change the unit.
ToggleUnits == Dispatch(Action(TOGGLE_UNITS, null, null))

SetTheme(theme) == Dispatch(Action(SET_THEME, null, theme))

\* ------------------------------------------------------------ specification

\* The session: a fresh storage, every button, at most MaxSteps actions typed
\* from the keys 0, 1, 5 and the point.
MaxSteps == 3

Init == InitFrom(InitialState(<<>>, TRUE, ThemeOcean))

Next ==
    \/ steps < MaxSteps /\ \E d \in {<<"0">>, <<"1">>, <<"5">>, <<".">>} : AddDigit(d)
    \/ steps < MaxSteps /\ \E op \in BinaryOps : ChooseOperation(op)
    \/ steps < MaxSteps /\ \E fn \in ScientificFns : ScientificOperation(fn)
    \/ steps < MaxSteps /\ Clear
    \/ steps < MaxSteps /\ DeleteDigit
    \/ steps < MaxSteps /\ Percent
    \/ steps < MaxSteps /\ ToggleSign
    \/ steps < MaxSteps /\ Evaluate
    \/ steps < MaxSteps /\ RecallHistory
    \/ steps < MaxSteps /\ ClearHistory
    \/ steps < MaxSteps /\ ToggleUnits
    \/ steps < MaxSteps /\ \E theme \in {ThemeOcean, ThemeAmber} : SetTheme(theme)
    \/ FactorialStep
    \/ FactorialReturn

Spec == Init /\ [][Next]_vars

\* Operand entry: longer runs of the keys and buttons that edit the operand.
MaxEntrySteps == 7

EntryNext ==
    \/ steps < MaxEntrySteps /\ \E d \in {<<"0">>, <<"5">>, <<".">>} : AddDigit(d)
    \/ steps < MaxEntrySteps /\ DeleteDigit
    \/ steps < MaxEntrySteps /\ ToggleSign
    \/ steps < MaxEntrySteps /\ Percent
    \/ steps < MaxEntrySteps /\ Clear

EntrySpec == Init /\ [][EntryNext]_vars

\* Arithmetic: runs of digits, two operators and the equals button.
MaxArithSteps == 6

ArithNext ==
    \/ steps < MaxArithSteps /\ \E d \in {<<"2">>, <<"3">>, <<"4">>} : AddDigit(d)
    \/ steps < MaxArithSteps /\ \E op \in {OpAdd, OpMul} : ChooseOperation(op)
    \/ steps < MaxArithSteps /\ Evaluate

ArithSpec == Init /\ [][ArithNext]_vars

\* Scientific functions on typed and computed operands, the loop of factorial
\* taken iteration by iteration.
MaxSciSteps == 4

SciNext ==
    \/ steps < MaxSciSteps /\ \E d \in {<<"0">>, <<"1">>, <<"2">>, <<"5">>, <<".">>} : AddDigit(d)
    \/ /\ steps < MaxSciSteps
       /\ \E fn \in {FnSqrt, FnReciprocal, FnLog, FnFactorial} : ScientificOperation(fn)
    \/ steps < MaxSciSteps /\ ToggleSign
    \/ FactorialStep
    \/ FactorialReturn

SciSpec == Init /\ [][SciNext]_vars

\* The loop of factorial alone: short runs that reach it with finite and
\* infinite operands.  The reducer runs on the one UI thread: once it is in
\* the loop nothing else is scheduled and it keeps executing, which is the
\* fairness stated.
MaxLoopSteps == 3

LoopNext ==
    \/ steps < MaxLoopSteps /\ \E d \in {<<"0">>, <<"1">>, <<"3">>} : AddDigit(d)
    \/ steps < MaxLoopSteps /\ \E fn \in {FnReciprocal, FnFactorial} : ScientificOperation(fn)
    \/ FactorialStep
    \/ FactorialReturn

LiveSpec ==
    Init /\ [][LoopNext]_vars /\ WF_vars(FactorialStep) /\ WF_vars(FactorialReturn)

\* History: a session that starts from the history an earlier session stored.
MaxHistorySteps == 4

\* The entry an earlier session stored for the calculation k + 0.
StoredEntry(k) ==
    [expression |-> <<DigitChars[k]>> \o <<" ", "+", " ", "0">>,
     result |-> <<DigitChars[k]>>]

HistoryNext ==
    \/ steps < MaxHistorySteps /\ \E d \in {<<"1">>, <<"4">>} : AddDigit(d)
    \/ steps < MaxHistorySteps /\ ChooseOperation(OpAdd)
    \/ steps < MaxHistorySteps /\ Evaluate
    \/ steps < MaxHistorySteps /\ Percent
    \/ steps < MaxHistorySteps /\ \E fn \in {FnSqrt, FnAbs} : ScientificOperation(fn)
    \/ steps < MaxHistorySteps /\ RecallHistory
    \/ steps < MaxHistorySteps /\ ClearHistory

HistorySpec ==
    /\ \E n \in {0, HistoryLimit - 1, HistoryLimit} :
            InitFrom(InitialState([k \in 1..n |-> StoredEntry(k)], TRUE, ThemeOcean))
    /\ [][HistoryNext]_vars

\* Backspace: digits, one operator, the equals button and DEL, long enough
\* for DEL to follow the result of 2 * 7 and the empty result of . * .
MaxBackspaceSteps == 5

BackspaceNext ==
    \/ steps < MaxBackspaceSteps /\ \E d \in {<<"2">>, <<"7">>, <<".">>} : AddDigit(d)
    \/ steps < MaxBackspaceSteps /\ ChooseOperation(OpMul)
    \/ steps < MaxBackspaceSteps /\ Evaluate
    \/ steps < MaxBackspaceSteps /\ DeleteDigit

BackspaceSpec == Init /\ [][BackspaceNext]_vars

\* Clearing: AC after entries, staged operators, recorded results and changes
\* of unit and theme; no other button of these runs empties the operand.
MaxClearSteps == 4

ClearNext ==
    \/ steps < MaxClearSteps /\ \E d \in {<<"5">>} : AddDigit(d)
    \/ steps < MaxClearSteps /\ \E op \in {OpAdd, OpDiv} : ChooseOperation(op)
    \/ steps < MaxClearSteps /\ Percent
    \/ steps < MaxClearSteps /\ Clear
    \/ steps < MaxClearSteps /\ ToggleUnits
    \/ steps < MaxClearSteps /\ SetTheme(ThemeAmber)

ClearSpec == Init /\ [][ClearNext]_vars

\* The unary functions: each of the ten on typed operands, on negated ones
\* and in both angle units.
MaxUnarySteps == 3

UnaryNext ==
    \/ steps < MaxUnarySteps /\ \E d \in {<<"0">>, <<"1">>, <<"6">>} : AddDigit(d)
    \/ steps < MaxUnarySteps /\ \E fn \in UnaryFns : ScientificOperation(fn)
    \/ steps < MaxUnarySteps /\ ToggleSign
    \/ steps < MaxUnarySteps /\ ToggleUnits
    \/ FactorialStep
    \/ FactorialReturn

UnarySpec == Init /\ [][UnaryNext]_vars

\* The reducer called with actions no button dispatches: a type outside
\* ACTIONS (Action.type is any string), and SCIENTIFIC_OPERATION with a
\* function name outside the switch.
MaxForeignSteps == 5

ForeignNext ==
    \/ steps < MaxForeignSteps /\ \E d \in {<<"5">>} : AddDigit(d)
    \/ steps < MaxForeignSteps /\ ChooseOperation(OpSub)
    \/ steps < MaxForeignSteps /\ Percent
    \/ /\ steps < MaxForeignSteps
       /\ \E type \in {"reset", "undo"} : Dispatch(Action(type, <<"7">>, OpAdd))
    \/ /\ steps < MaxForeignSteps
       /\ \E fn \in {<<"c", "b", "r", "t">>, null} :
                Dispatch(Action(SCIENTIFIC_OPERATION, null, fn))

ForeignSpec == Init /\ [][ForeignNext]_vars

\* evaluate as a function: sessions taken up at the point where a left
\* operand, an operator and a right operand have been entered, for operands
\* the calculator can hold (typed, negated, trimmed by DEL to "-" or "-0",
\* results of earlier computations), followed by = or by a further operator.  A right
\* operand "Infinity" is a result, so overwrite is set with it; the empty
\* string is a left operand only.
MaxApplySteps == 1
ApplyNext ==
    \/ steps < MaxApplySteps /\ Evaluate
    \/ steps < MaxApplySteps /\ \E op \in BinaryOps : ChooseOperation(op)

ApplySpec ==
    /\ LET right == {<<".">>, <<"-">>, StrNaN, StrInfinity, <<"0">>, <<"2">>,
                      <<"3">>, <<"-", "2">>, <<"1", "0">>, <<"0", ".", "5">>,
                      <<"-", "0">>}
       IN  \E a \in right \cup {<<>>}, b \in right, op \in BinaryOps :
            InitFrom([InitialState(<<>>, TRUE, ThemeOcean) EXCEPT
                          !.previousOperand = a,
                          !.operation = op,
                          !.currentOperand = b,
                          !.overwrite = (b = StrInfinity)])
    /\ [][ApplyNext]_vars

\* ---------------------------------------------------------------- assistant

\* A message { role, content, type } of the assistant; an absent type is "none".
Message(role, content, type) == [role |-> role, content |-> content, type |-> type]

ResultPrefix == <<"R", "e", "s", "u", "l", "t", ":", " ">>

\* A text the model does not look into is one token: "prompt", "explanation",
\* "sorry", "Explain the calculation: ".

\* A request in flight: which handler issued it, whether the panel that
\* issued it is still mounted, and the service's reply (ok: the promise
\* resolves, with `result` in the object of a solve; otherwise it rejects).
Request(kind, ok, result) == [kind |-> kind, live |-> TRUE, ok |-> ok, result |-> result]

\* pending without its k-th request.
Without(k) == SubSeq(pending, 1, k - 1) \o SubSeq(pending, k + 1, Len(pending))

\* The setMessages and setIsLoading calls of the handler that issued request
\* k, after its await: they act on the panel that issued it, and on nothing
\* once that panel is unmounted.
Settle(k, new) ==
    /\ pending' = Without(k)
    /\ showAi' = showAi
    /\ IF pending[k].live
       THEN isLoading' = FALSE /\ messages' = messages \o new
       ELSE UNCHANGED <<isLoading, messages>>

\* The AI button, the panel's close button and the History button: the panel
\* is mounted with fresh state, or unmounted with its requests left in flight.
ToggleAi ==
    /\ pc = "idle"
    /\ showAi' = ~showAi
    /\ isLoading' = FALSE
    /\ messages' = <<>>
    /\ pending' = [k \in DOMAIN pending |-> [pending[k] EXCEPT !.live = FALSE]]
    /\ UNCHANGED <<state, before, action, steps, pc, i, res, storage>>

\* handleSolve up to its await, for a prompt that is not blank.
Solve(ok, result) ==
    /\ pc = "idle"
    /\ showAi
    /\ ~isLoading
    /\ messages' = Append(messages, Message("user", <<"prompt">>, "none"))
    /\ isLoading' = TRUE
    /\ pending' = Append(pending, Request("solve", ok, result))
    /\ UNCHANGED <<state, before, action, steps, pc, i, res, storage, showAi>>

\* handleSolve's catch block that applies a result all the same.
SolveFailsApplies(k) ==
    /\ k \in DOMAIN pending
    /\ pending[k].kind = "solve"
    /\ ~pending[k].ok
    /\ Reduce(Action(SET_HISTORY_ITEM, StrNaN, null))
    /\ Settle(k, <<Message("ai", <<"sorry">>, "none")>>)

\* handleSolve after its await, the request rejected: catch and finally.
SolveFails(k) ==
    /\ pc = "idle"
    /\ k \in DOMAIN pending
    /\ pending[k].kind = "solve"
    /\ ~pending[k].ok
    /\ Settle(k, <<Message("ai", <<"sorry">>, "none")>>)
    /\ UNCHANGED <<state, before, action, steps, pc, i, res, storage>>

\* handleSolve after its await that starts a new calculation with the result.
SolveSucceedsRestarts(k) ==
    /\ k \in DOMAIN pending
    /\ pending[k].kind = "solve"
    /\ pending[k].ok
    /\ pc = "idle"
    /\ state' = [state EXCEPT !.currentOperand = toString(pending[k].result),
                              !.previousOperand = null, !.operation = null,
                              !.overwrite = TRUE]
    /\ before' = state
    /\ action' = Action(SET_HISTORY_ITEM, toString(pending[k].result), null)
    /\ steps' = steps + 1
    /\ UNCHANGED <<pc, i, res, storage>>
    /\ Settle(k, <<Message("ai", <<"explanation">>, "explanation"),
                   Message("ai", ResultPrefix \o toString(pending[k].result), "result")>>)

\* handleSolve after its await, the request resolved: the two messages, the
\* dispatch of the result, and finally.
SolveSucceeds(k) ==
    /\ k \in DOMAIN pending
    /\ pending[k].kind = "solve"
    /\ pending[k].ok
    /\ Reduce(Action(SET_HISTORY_ITEM, toString(pending[k].result), null))
    /\ Settle(k, <<Message("ai", <<"explanation">>, "explanation"),
                   Message("ai", ResultPrefix \o toString(pending[k].result), "result")>>)

\* The expression handleExplain asks about.
expression(s) ==
    IF s.previousOperand \notin {null, <<>>} /\ s.operation \notin {null, <<>>}
            /\ s.currentOperand \notin {null, <<>>}
    THEN s.previousOperand \o <<" ">> \o s.operation \o <<" ">> \o s.currentOperand
    ELSE IF s.currentOperand \notin {null, <<>>} THEN s.currentOperand
    ELSE <<"0">>

\* handleExplain up to its await.
Explain(ok) ==
    /\ pc = "idle"
    /\ showAi
    /\ ~isLoading
    /\ isLoading' = TRUE
    /\ messages' = Append(messages, Message("user",
                <<"Explain the calculation: ">> \o expression(state), "none"))
    /\ pending' = Append(pending, Request("explain", ok, One))
    /\ UNCHANGED <<state, before, action, steps, pc, i, res, storage, showAi>>

\* handleExplain after its await: the text on success, and finally.
ExplainSettles(k) ==
    /\ pc = "idle"
    /\ k \in DOMAIN pending
    /\ pending[k].kind = "explain"
    /\ Settle(k, IF pending[k].ok THEN <<Message("ai", <<"explanation">>, "none")>> ELSE <<>>)
    /\ UNCHANGED <<state, before, action, steps, pc, i, res, storage>>

\* The "Apply to Calc" button of the j-th message, which dispatches
\* msg.content.replace("Result: ", "").
ApplyToCalc(j) ==
    /\ showAi
    /\ j \in DOMAIN messages
    /\ messages[j].type = "result"
    /\ LET content == messages[j].content
           n == Len(ResultPrefix)
           result == IF Len(content) >= n /\ SubSeq(content, 1, n) = ResultPrefix
                     THEN SubSeq(content, n + 1, Len(content))
                     ELSE content
       IN  Reduce(Action(SET_HISTORY_ITEM, result, null))
    /\ UNCHANGED aiVars

\* The calculator with the assistant: one digit key, one operator and =,
\* interleaved with the panel's buttons, its requests and their replies.
MaxAiSteps == 2
MaxPending == 2
MaxMessages == 3
AiResults == {Fin(FALSE, 8, 0), Fin(TRUE, 25, 1)}

AiNext ==
    \/ steps < MaxAiSteps /\ \E d \in {<<"5">>} : AddDigit(d)
    \/ steps < MaxAiSteps /\ ChooseOperation(OpAdd)
    \/ steps < MaxAiSteps /\ Evaluate
    \/ ToggleAi
    \/ /\ Len(pending) < MaxPending
       /\ Len(messages) < MaxMessages
       /\ \E ok \in BOOLEAN, result \in AiResults : Solve(ok, result)
    \/ /\ Len(pending) < MaxPending
       /\ Len(messages) < MaxMessages
       /\ \E ok \in BOOLEAN : Explain(ok)
    \/ steps < MaxAiSteps /\ \E k \in 1..MaxPending : SolveSucceeds(k)
    \/ \E k \in 1..MaxPending : SolveFails(k)
    \/ \E k \in 1..MaxPending : ExplainSettles(k)
    \/ steps < MaxAiSteps /\ \E j \in 1..(MaxMessages + 2) : ApplyToCalc(j)

AiSpec == Init /\ [][AiNext]_vars

\* The calculator while a solve request is in flight: sessions taken up
\* after the panel was opened and a prompt submitted, the reply being any of
\* those the service can give.  No further request is issued, so every
\* action reduced before the reply arrives is reduced with the request
\* pending; the panel may be closed and reopened meanwhile.
MaxRaceSteps == 3

RaceNext ==
    \/ steps < MaxRaceSteps /\ \E d \in {<<"3">>} : AddDigit(d)
    \/ steps < MaxRaceSteps /\ ChooseOperation(OpAdd)
    \/ steps < MaxRaceSteps /\ Evaluate
    \/ steps < MaxRaceSteps /\ ScientificOperation(FnFactorial)
    \/ FactorialStep
    \/ FactorialReturn
    \/ ToggleAi
    \/ steps < MaxRaceSteps /\ \E k \in 1..MaxPending : SolveSucceeds(k)
    \/ \E k \in 1..MaxPending : SolveFails(k)
    \/ steps < MaxRaceSteps /\ \E j \in 1..(MaxMessages + 2) : ApplyToCalc(j)

RaceSpec ==
    /\ state = InitialState(<<>>, TRUE, ThemeOcean)
    /\ before = state
    /\ storage = Persisted(state)
    /\ action = NoAction
    /\ steps = 0
    /\ pc = "idle"
    /\ i = One
    /\ res = One
    /\ showAi = TRUE
    /\ isLoading = TRUE
    /\ messages = <<Message("user", <<"prompt">>, "none")>>
    /\ \E ok \in BOOLEAN, result \in AiResults :
            pending = <<Request("solve", ok, result)>>
    /\ [][RaceNext]_vars

\* Editing the right operand: sessions taken up after 6 and - were entered
\* over a stored history of one entry, continued with every button that
\* edits the operand and with =.
MaxEditSteps == 3

EditNext ==
    \/ steps < MaxEditSteps /\ \E d \in {<<"2">>, <<".">>} : AddDigit(d)
    \/ steps < MaxEditSteps /\ DeleteDigit
    \/ steps < MaxEditSteps /\ Percent
    \/ steps < MaxEditSteps /\ ToggleSign
    \/ steps < MaxEditSteps /\ \E fn \in {FnSquare, FnReciprocal, FnPi} : ScientificOperation(fn)
    \/ steps < MaxEditSteps /\ RecallHistory
    \/ steps < MaxEditSteps /\ Evaluate

EditSpec ==
    /\ InitFrom([InitialState(<<StoredEntry(4)>>, TRUE, ThemeOcean) EXCEPT
                      !.previousOperand = <<"6">>, !.operation = OpSub])
    /\ [][EditNext]_vars

\* dispatch(a) when localStorage.setItem throws in the effect that follows:
\* the k-th of the three calls throws, the items before it are written, and
\* the error leaves the effect.  No error boundary is mounted around App, so
\* React unmounts the tree, and the reducer's state with it.
WriteThrows(a, k) ==
    /\ pc = "idle"
    /\ ~RunsLoop(state, a)
    /\ Follows(state, a)
    /\ Rewrites(state, a)
    /\ state' = reducer(state, a)
    /\ before' = state
    /\ action' = a
    /\ steps' = steps + 1
    /\ storage' = [storage EXCEPT
                       !.history = IF k > 1 THEN Persisted(state').history ELSE @,
                       !.units = IF k > 2 THEN Persisted(state').units ELSE @]
    /\ pc' = "unmounted"
    /\ UNCHANGED <<i, res>>
    /\ UNCHANGED aiVars

\* Persistence: sessions over an empty and over a full stored history, with
\* the buttons that change history, unit and theme and some that do not, the
\* writes succeeding or throwing.
MaxPersistSteps == 4

PersistNext ==
    \/ steps < MaxPersistSteps /\ \E d \in {<<"5">>} : AddDigit(d)
    \/ steps < MaxPersistSteps /\ ChooseOperation(OpMul)
    \/ steps < MaxPersistSteps /\ Evaluate
    \/ steps < MaxPersistSteps /\ Percent
    \/ steps < MaxPersistSteps /\ ScientificOperation(FnSquare)
    \/ steps < MaxPersistSteps /\ RecallHistory
    \/ steps < MaxPersistSteps /\ ClearHistory
    \/ steps < MaxPersistSteps /\ ToggleUnits
    \/ steps < MaxPersistSteps /\ SetTheme(ThemeAmber)
    \/ /\ steps < MaxPersistSteps
       /\ \E type \in {EVALUATE, PERCENT, CLEAR_HISTORY, TOGGLE_UNITS}, k \in 1..3 :
            WriteThrows(Action(type, null, null), k)

PersistSpec ==
    /\ \E n \in {0, HistoryLimit} :
            InitFrom(InitialState([k \in 1..n |-> StoredEntry(k)], TRUE, ThemeOcean))
    /\ [][PersistNext]_vars

\* handleKeyDown: the action the window's keydown listener dispatches for a
\* key, NoAction for a key it has no branch for.  The first test is
\* /\d/.test(key): any key whose name holds a digit.
handleKeyDown(key) ==
    LET sci == [s |-> FnSqrt, r |-> FnReciprocal, a |-> FnAbs, i |-> FnSin,
                o |-> FnCos, t |-> FnTan, l |-> FnLog, n |-> FnLn]
    IN  IF \E j \in DOMAIN key : IsDigit(key[j]) THEN Action(ADD_DIGIT, key, null)
        ELSE IF key = <<".">> THEN Action(ADD_DIGIT, <<".">>, null)
        ELSE IF key \in {<<"+">>, <<"-">>, <<"*">>, <<"/">>}
        THEN Action(CHOOSE_OPERATION, null, IF key = <<"/">> THEN OpDiv ELSE key)
        ELSE IF key \in {<<"E", "n", "t", "e", "r">>, <<"=">>} THEN Action(EVALUATE, null, null)
        ELSE IF key = <<"B", "a", "c", "k", "s", "p", "a", "c", "e">>
        THEN Action(DELETE_DIGIT, null, null)
        ELSE IF key = <<"E", "s", "c", "a", "p", "e">> THEN Action(CLEAR, null, null)
        ELSE IF key = <<"%">> THEN Action(PERCENT, null, null)
        ELSE IF key = <<"p">> THEN Action(CHOOSE_OPERATION, null, OpPow)
        ELSE IF key = <<"!">> THEN Action(SCIENTIFIC_OPERATION, null, FnFactorial)
        ELSE IF Len(key) = 1 /\ key[1] \in DOMAIN sci
        THEN Action(SCIENTIFIC_OPERATION, null, sci[key[1]])
        ELSE NoAction

\* A key pressed while the prompt field of the assistant has the focus (the
\* field is disabled while a request is in flight).  The keydown event
\* bubbles to the window, whose listener does not look at the event's target;
\* the text the field collects is not modelled, and the submission that
\* Enter also triggers is the action Solve.
TypePrompt(key) ==
    LET a == handleKeyDown(key)
    IN  /\ pc = "idle"
        /\ showAi
        /\ ~isLoading
        /\ IF a = NoAction THEN UNCHANGED vars
           ELSE Dispatch(a) \/ (RunsLoop(state, a) /\ FactorialCall)

\* Prompts typed into the assistant: the panel is opened and closed, and
\* while it is open every key goes to the prompt field, as in "15% of 3!"
\* followed by Enter.
MaxPromptSteps == 4

PromptNext ==
    \/ ToggleAi
    \/ /\ steps < MaxPromptSteps
       /\ \E key \in {<<"1">>, <<"5">>, <<"3">>, <<"%">>, <<" ">>, <<"o">>, <<"f">>, <<"!">>,
                      <<"+">>, <<"E", "n", "t", "e", "r">>} : TypePrompt(key)
    \/ FactorialStep
    \/ FactorialReturn

PromptSpec == Init /\ [][PromptNext]_vars

\* ------------------------------------------------------------------- claims

\* The reducer returned from the dispatched action in this step.
Returned == steps' = steps + 1

\* Whether reducing `a` in state `s` records a calculation in the history.
Records(s, a) ==
    \/ a.type = EVALUATE /\ s.operation # null /\ s.currentOperand # null
                         /\ s.previousOperand # null
    \/ a.type = PERCENT /\ s.currentOperand # null
    \/ a.type = SCIENTIFIC_OPERATION /\ a.operation \in UnaryFns
                                     /\ s.currentOperand # null

\* C1: in every state reachable from a session start whose history comes from
\* storage (or is empty), the history holds at most 10 entries.
C1_HistoryAtMostTen == Len(state.history) <= 10

\* C1 witness: a calculation was recorded on top of a full stored history and
\* the history still holds 10 entries.
C1_Witness ==
    /\ steps > 0
    /\ Len(state.history) = 10
    /\ state.history[1] # StoredEntry(1)
    /\ state.history[2] = StoredEntry(1)
    /\ state.history[10] = StoredEntry(9)

\* C8: every recording action (Evaluate, Percent, unary ScientificOperation)
\* puts its entry at index 0, keeps the earlier entries in their order behind
\* it and drops only the oldest one once there are more than 10; the entry's
\* result is the operand the action leaves.
C8_NewestFirst ==
    [][(Returned /\ Records(state, action'))
        => LET old == state.history
               new == state'.history
           IN  /\ Len(new) = (IF Len(old) < 10 THEN Len(old) + 1 ELSE 10)
               /\ new[1].result = state'.currentOperand
               /\ \A k \in 2..Len(new) : new[k] = old[k - 1]]_vars

\* C8 witness: the eleventh and twelfth calculations on top of ten stored
\* ones: the two newest are in front, the two oldest stored ones are gone.
C8_Witness ==
    /\ steps >= 2
    /\ Len(state.history) = 10
    /\ state.history[1].result = state.currentOperand
    /\ state.history[1] # state.history[2]
    /\ state.history[3] = StoredEntry(1)
    /\ state.history[10] = StoredEntry(8)

\* C2: the reducer returns from every action in every reachable state; for
\* factorial, whose loop is the only one in the reducer: whenever the reducer
\* is in the loop it leaves it and returns, whatever operand it was given,
\* the infinity and not-a-number operands included.
C2_ReducerReturns == (pc = "factorial") ~> (pc = "idle")

\* C2, the case the claim names: the reducer is in factorial's loop with an
\* operand that renders +Infinity; it is reached from 1/(0).
C2_InfinityInLoop ==
    pc = "factorial" /\ state.currentOperand = StrInfinity

\* How many decimal points s holds.
CountPoints(s) == Cardinality({k \in 1..Len(s) : s[k] = "."})

\* An optional "-", one or more digits without a redundant leading zero, and
\* optionally one "." followed by digits (a trailing "." is let through).
WellFormed(s) ==
    LET body == IF s # <<>> /\ s[1] = "-" THEN Tail(s) ELSE s
        int == DigitPrefix(body)
        rest == SubSeq(body, Len(int) + 1, Len(body))
    IN  /\ Len(int) >= 1
        /\ ~(Len(int) >= 2 /\ int[1] = "0")
        /\ rest # <<>> => rest[1] = "." /\ DigitPrefix(Tail(rest)) = Tail(rest)

\* C3: in every reachable state currentOperand is null or a well-formed
\* decimal: optional "-", digits, optionally one "." and digits, never two
\* decimal points, never a redundant leading zero.
C3_OperandWellFormed ==
    state.currentOperand = null \/ WellFormed(state.currentOperand)

\* C6: Evaluate with operation, currentOperand or previousOperand null
\* returns the state unchanged, in every field.
C6_EvaluateNoOp ==
    [][(Returned /\ action'.type = EVALUATE
        /\ (state.operation = null \/ state.currentOperand = null
            \/ state.previousOperand = null))
        => state' = state]_vars

\* C6 witness: Evaluate was dispatched with an operator and a left operand
\* staged and no right operand, and they are still staged.
C6_Witness ==
    /\ action.type = EVALUATE
    /\ state.operation # null
    /\ state.previousOperand # null
    /\ state.currentOperand = null
    /\ state.history = <<>>

\* C9: an AddDigit action never leaves a currentOperand with two "." or one
\* that begins with "00".
C9_AddDigitKeepsShape ==
    (action.type = ADD_DIGIT /\ state.currentOperand # null)
        => /\ CountPoints(state.currentOperand) <= 1
           /\ ~startsWith(state.currentOperand, <<"0", "0">>)

\* C9 witness: a second "." was typed after ".5" and was rejected.
C9_Witness ==
    /\ action = Action(ADD_DIGIT, <<".">>, null)
    /\ state.currentOperand = <<".", "5">>

\* C10: AddDigit(d) with overwrite set makes currentOperand exactly d, clears
\* overwrite and leaves previousOperand, operation and history (and every
\* other field) unchanged.
C10_AddDigitOverwrites ==
    [][(Returned /\ action'.type = ADD_DIGIT /\ state.overwrite)
        => state' = [state EXCEPT !.currentOperand = action'.digit,
                                  !.overwrite = FALSE]]_vars

\* C10 witness: three actions, the second of which recorded a result; the
\* third is a digit, and it is the whole operand.
C10_Witness ==
    /\ steps = 3
    /\ action.type = ADD_DIGIT
    /\ Len(state.history) = 1
    /\ state.currentOperand = action.digit
    /\ state.currentOperand # state.history[1].result
    /\ ~state.overwrite

\* The operator op on naturals, as arithmetic defines it.
RefApply(op, a, b) == IF op = OpAdd THEN a + b ELSE a * b

\* The rendering of apply(operation, previousOperand, currentOperand) for the
\* natural operands of the arithmetic runs.
RefResult(s) ==
    NatToDigits(RefApply(s.operation, DigitsToNat(s.previousOperand),
                         DigitsToNat(s.currentOperand)))

\* C4: ChooseOperation(op) with both operands present sets previousOperand to
\* apply(operation, previousOperand, currentOperand), clears currentOperand
\* and sets operation to op, so a chain is resolved left to right: 3 + 4
\* becomes 7 when * is chosen, and Evaluate of 7 * 2 ends with "14".
C4_EagerChaining ==
    [][/\ (Returned /\ action'.type = CHOOSE_OPERATION
           /\ state.currentOperand # null /\ state.previousOperand # null)
          => state' = [state EXCEPT !.previousOperand = RefResult(state),
                                    !.currentOperand = null,
                                    !.operation = action'.operation]
       /\ (Returned /\ action'.type = EVALUATE
           /\ state.previousOperand = <<"7">> /\ state.operation = OpMul
           /\ state.currentOperand = <<"2">>)
          => state'.currentOperand = <<"1", "4">>]_vars

\* C4 witness: the end of 3 + 4 * 2 =.  No key of these runs types a 7, so
\* the left operand of 7 * 2 is the result the chaining staged.
C4_Witness ==
    /\ action.type = EVALUATE
    /\ state.currentOperand = <<"1", "4">>
    /\ Len(state.history) = 1
    /\ state.history[1].expression = <<"7", " ", "*", " ", "2">>

\* C5: Evaluate with operation and both operands present sets currentOperand
\* to apply(operation, previousOperand, currentOperand), clears
\* previousOperand and operation, sets overwrite and puts the entry
\* {"<prev> <op> <cur>", result} at the front of the history.
C5_Evaluate ==
    [][(Returned /\ action'.type = EVALUATE /\ state.operation # null
        /\ state.currentOperand # null /\ state.previousOperand # null)
        => LET entry == [expression |-> state.previousOperand \o <<" ">>
                                         \o state.operation \o <<" ">>
                                         \o state.currentOperand,
                         result |-> RefResult(state)]
           IN  state' = [state EXCEPT
                   !.currentOperand = RefResult(state),
                   !.previousOperand = null,
                   !.operation = null,
                   !.overwrite = TRUE,
                   !.history = SubSeq(<<entry>> \o state.history, 1,
                       IF Len(state.history) < 10 THEN Len(state.history) + 1
                       ELSE 10)]]_vars

\* C5 witness: 3 + 4 = has been evaluated.
C5_Witness ==
    /\ action.type = EVALUATE
    /\ state.currentOperand = <<"7">>
    /\ state.previousOperand = null
    /\ state.operation = null
    /\ state.overwrite
    /\ state.history =
           <<[expression |-> <<"3", " ", "+", " ", "4">>, result |-> <<"7">>]>>

RECURSIVE RefFactorial(_)
RefFactorial(n) == IF n = 0 THEN 1 ELSE n * RefFactorial(n - 1)

\* C7: ScientificOperation(factorial) yields n! for a non-negative integer
\* operand and the rendering of NaN for every negative or non-integer one.
C7_FactorialDomain ==
    [][(Returned /\ action'.type = SCIENTIFIC_OPERATION
        /\ action'.operation = FnFactorial /\ state.currentOperand # null
        /\ IsFin(parseFloat(state.currentOperand)))
        => LET n == parseFloat(state.currentOperand)
           IN  IF n.e = 0 /\ (~n.neg \/ n.m = 0)
               THEN state'.currentOperand = NatToDigits(RefFactorial(n.m))
               ELSE state'.currentOperand = StrNaN]_vars

\* C7, the cases the code agrees with: 5! is "120" and (-1)! is NaN.
C7_Agreed ==
    /\ action = Action(SCIENTIFIC_OPERATION, null, FnFactorial)
    /\ pc = "idle"
    /\ state.history # <<>>
    /\ \/ state.history[1] = [expression |-> <<"5", "!">>, result |-> <<"1", "2", "0">>]
       \/ state.history[1] = [expression |-> <<"-", "1", "!">>, result |-> StrNaN]

\* C11: ChooseOperation(op) with currentOperand and previousOperand both null
\* returns the state unchanged, and whenever a step gives operation a new
\* non-null value, one of the two operands was non-null before the step.
C11_OperatorNeedsOperand ==
    [][/\ (Returned /\ action'.type = CHOOSE_OPERATION
           /\ state.currentOperand = null /\ state.previousOperand = null)
          => state' = state
       /\ (state'.operation # state.operation /\ state'.operation # null)
          => (state.currentOperand # null \/ state.previousOperand # null)]_vars

\* C11 witness: an operator was chosen with both operands empty, and no
\* operator is staged.
C11_Witness ==
    /\ action.type = CHOOSE_OPERATION
    /\ before.currentOperand = null
    /\ before.previousOperand = null
    /\ state = before
    /\ state.operation = null

\* C12: ChooseOperation(op) with currentOperand null and previousOperand
\* non-null replaces operation by op and changes no other field:
\* previousOperand, currentOperand, overwrite and history stay as they were.
C12_ChangeOperator ==
    [][(Returned /\ action'.type = CHOOSE_OPERATION
        /\ state.currentOperand = null /\ state.previousOperand # null)
        => state' = [state EXCEPT !.operation = action'.operation]]_vars

\* C12 witness: with a left operand staged, no right operand and the
\* overwrite flag set, another operator was chosen: it replaced the staged
\* one and the flag is still set.
C12_Witness ==
    /\ action.type = CHOOSE_OPERATION
    /\ before.currentOperand = null
    /\ before.previousOperand # null
    /\ before.operation # null
    /\ before.operation # action.operation
    /\ before.overwrite
    /\ state = [before EXCEPT !.operation = action.operation]

\* C13: ChooseOperation(op) with previousOperand null and currentOperand
\* non-null makes previousOperand the very text currentOperand held, sets
\* currentOperand to null and operation to op.
C13_StageFirstOperand ==
    [][(Returned /\ action'.type = CHOOSE_OPERATION
        /\ state.previousOperand = null /\ state.currentOperand # null)
        => /\ state'.previousOperand = state.currentOperand
           /\ state'.currentOperand = null
           /\ state'.operation = action'.operation]_vars

\* C13 witness: "05" was typed and an operator chosen: "05" is the left
\* operand, character for character.
C13_Witness ==
    /\ action.type = CHOOSE_OPERATION
    /\ before.previousOperand = null
    /\ before.currentOperand = <<"0", "5">>
    /\ state.previousOperand = <<"0", "5">>
    /\ state.currentOperand = null
    /\ state.operation = action.operation

\* C14: DeleteDigit with overwrite set makes currentOperand null and clears
\* overwrite, however long the operand is: the result "14" of an Evaluate
\* becomes null, not "1".
C14_DeleteDigitClearsResult ==
    [][(Returned /\ action'.type = DELETE_DIGIT /\ state.overwrite)
        => /\ state'.currentOperand = null
           /\ ~state'.overwrite]_vars

\* C14 witness: 2 * 7 was evaluated to "14", DEL was pressed once, and the
\* operand is null with overwrite cleared.
C14_Witness ==
    /\ action.type = DELETE_DIGIT
    /\ before.overwrite
    /\ before.currentOperand = <<"1", "4">>
    /\ before.history = <<[expression |-> <<"2", " ", "*", " ", "7">>,
                           result |-> <<"1", "4">>]>>
    /\ state.currentOperand = null
    /\ ~state.overwrite

\* C15: DeleteDigit with overwrite clear returns the state unchanged when
\* currentOperand is null, makes it null when it is one character long, and
\* otherwise removes exactly its last character; no DeleteDigit leaves the
\* empty string in currentOperand.
C15_DeleteDigitTrims ==
    [][(Returned /\ action'.type = DELETE_DIGIT)
        => /\ state'.currentOperand # <<>>
           /\ ~state.overwrite
              => IF state.currentOperand = null THEN state' = state
                 ELSE IF Len(state.currentOperand) = 1
                 THEN state' = [state EXCEPT !.currentOperand = null]
                 ELSE /\ state'.currentOperand \o
                             <<state.currentOperand[Len(state.currentOperand)]>>
                         = state.currentOperand
                      /\ state' = [state EXCEPT
                             !.currentOperand = state'.currentOperand]]_vars

\* C15 witness: DEL on the typed operand "27" left "2".
C15_Witness ==
    /\ action.type = DELETE_DIGIT
    /\ ~before.overwrite
    /\ before.currentOperand = <<"2", "7">>
    /\ state.currentOperand = <<"2">>

\* The decimal numeral of n / 100 for a natural n, as arithmetic defines it.
RefPercent(n) ==
    LET whole == NatToDigits(n \div 100)
        tens == (n % 100) \div 10
        units == n % 10
    IN  IF n % 100 = 0 THEN whole
        ELSE IF units = 0 THEN whole \o <<".", DigitChars[tens + 1]>>
        ELSE whole \o <<".", DigitChars[tens + 1], DigitChars[units + 1]>>

\* Whether s is a non-empty string of digits.
IsNatural(s) == s # <<>> /\ DigitPrefix(s) = s

\* C16: Percent with currentOperand null returns the state unchanged;
\* otherwise it sets overwrite, puts the entry {"<old>%", new} at the front
\* of the history, new being the operand it leaves, and changes nothing
\* else; the operand it leaves is the numeral of old / 100 ("50" gives
\* "0.5").
C16_Percent ==
    [][(Returned /\ action'.type = PERCENT)
        => IF state.currentOperand = null THEN state' = state
           ELSE LET new == state'.currentOperand
                    entry == [expression |-> state.currentOperand \o <<"%">>,
                              result |-> new]
                IN  /\ state' = [state EXCEPT
                           !.currentOperand = new,
                           !.overwrite = TRUE,
                           !.history = SubSeq(<<entry>> \o state.history, 1,
                               IF Len(state.history) < 10
                               THEN Len(state.history) + 1 ELSE 10)]
                    /\ IsNatural(state.currentOperand)
                       => new = RefPercent(DigitsToNat(state.currentOperand))]_vars

\* C16 witness: Percent on the typed operand "50" left "0.5", the entry
\* {"50%", "0.5"} and overwrite set.
C16_Witness ==
    /\ action.type = PERCENT
    /\ before.currentOperand = <<"5", "0">>
    /\ ~before.overwrite
    /\ state.currentOperand = <<"0", ".", "5">>
    /\ state.overwrite
    /\ state.history = <<[expression |-> <<"5", "0", "%">>,
                          result |-> <<"0", ".", "5">>]>>

\* Whether the number w is the negation of the number v.
IsNegationOf(w, v) ==
    IF IsNaN(v) THEN IsNaN(w)
    ELSE /\ w.k = v.k
         /\ IsZero(v) \/ w.neg # v.neg
         /\ IsFin(v) => w.m = v.m /\ w.e = v.e

\* C17: ToggleSign with currentOperand null returns the state unchanged;
\* otherwise it changes currentOperand only (no history entry, overwrite as
\* it was), and the operand it leaves reads as the negation of the number
\* the old one read as: a "-" is put before a natural and taken off a
\* negated one.
C17_ToggleSign ==
    [][(Returned /\ action'.type = TOGGLE_SIGN)
        => IF state.currentOperand = null THEN state' = state
           ELSE LET old == state.currentOperand
                    new == state'.currentOperand
                IN  /\ state' = [state EXCEPT !.currentOperand = new]
                    /\ IsNegationOf(parseFloat(new), parseFloat(old))
                    /\ (IsNatural(old) /\ old[1] # "0") => new = <<"-">> \o old
                    /\ (old # <<>> /\ old[1] = "-" /\ IsNatural(Tail(old))
                        /\ old[2] # "0")
                       => new = Tail(old)]_vars

\* C17 witness: the sign of the result "5" of a Percent was toggled: the
\* operand is "-5", overwrite is still set and the history is the same.
C17_Witness ==
    /\ action.type = TOGGLE_SIGN
    /\ before.currentOperand = <<"5">>
    /\ before.overwrite
    /\ Len(before.history) = 1
    /\ state = [before EXCEPT !.currentOperand = <<"-", "5">>]

\* Whether the string e contains the string s.
Contains(e, s) ==
    \E k \in 0..(Len(e) - Len(s)) : SubSeq(e, k + 1, k + Len(s)) = s

\* The naturals n at which the function fn has a value arithmetic gives
\* exactly, and the numeral of that value.
RefUnaryDefined(fn, n) ==
    IF fn = FnSqrt THEN \E r \in 0..n : r * r = n
    ELSE IF fn \in {FnSquare, FnAbs, FnFactorial} THEN TRUE
    ELSE IF fn \in {FnReciprocal, FnLog, FnLn} THEN n = 1
    ELSE n = 0

RefUnary(fn, n) ==
    IF fn = FnSqrt THEN NatToDigits(CHOOSE r \in 0..n : r * r = n)
    ELSE IF fn = FnSquare THEN NatToDigits(n * n)
    ELSE IF fn = FnAbs THEN NatToDigits(n)
    ELSE IF fn = FnFactorial THEN NatToDigits(RefFactorial(n))
    ELSE IF fn = FnReciprocal THEN <<"1">>
    ELSE IF fn = FnCos THEN <<"1">>
    ELSE <<"0">>

\* C18: a unary ScientificOperation(fn) with currentOperand null returns the
\* state unchanged; otherwise it sets overwrite, puts at the front of the
\* history an entry whose expression is rendered from the old operand and
\* whose result is the operand it leaves, and changes nothing else; the
\* operand it leaves is the numeral of fn at the old one (sqrt on "16" gives
\* "4" with the entry {"U+221A(16)", "4"}).
C18_UnaryFunction ==
    [][(Returned /\ action'.type = SCIENTIFIC_OPERATION
        /\ action'.operation \in UnaryFns)
        => IF state.currentOperand = null THEN state' = state
           ELSE LET old == state.currentOperand
                    new == state'.currentOperand
                    fn == action'.operation
                    entry == state'.history[1]
                IN  /\ state'.history # <<>>
                    /\ entry.result = new
                    /\ Contains(entry.expression, old)
                    /\ entry.expression # old
                    /\ fn = FnSqrt
                       => entry.expression = <<"U+221A", "(">> \o old \o <<")">>
                    /\ state' = [state EXCEPT
                           !.currentOperand = new,
                           !.overwrite = TRUE,
                           !.history = SubSeq(<<entry>> \o state.history, 1,
                               IF Len(state.history) < 10
                               THEN Len(state.history) + 1 ELSE 10)]
                    /\ (IsNatural(old) /\ RefUnaryDefined(fn, DigitsToNat(old)))
                       => new = RefUnary(fn, DigitsToNat(old))]_vars

\* C18 witness: sqrt on the typed operand "16" left "4", overwrite set and
\* the entry {"U+221A(16)", "4"}.
C18_Witness ==
    /\ action = Action(SCIENTIFIC_OPERATION, null, FnSqrt)
    /\ before.currentOperand = <<"1", "6">>
    /\ ~before.overwrite
    /\ state.currentOperand = <<"4">>
    /\ state.overwrite
    /\ state.history = <<[expression |-> <<"U+221A", "(", "1", "6", ")">>,
                          result |-> <<"4">>]>>

\* C19: ScientificOperation("pi") and ScientificOperation("e"), with
\* currentOperand null or not, set currentOperand to the constant and
\* overwrite to true and change nothing else: history, previousOperand and
\* operation stay as they were.
C19_Constants ==
    [][(Returned /\ action'.type = SCIENTIFIC_OPERATION
        /\ action'.operation \in {FnPi, FnE})
        => state' = [state EXCEPT
               !.currentOperand = IF action'.operation = FnPi THEN StrPi ELSE StrE,
               !.overwrite = TRUE]]_vars

\* C19 witness: with a left operand and an operator staged and no right
\* operand, pi was pressed: it is the right operand and the staged ones are
\* untouched.
C19_Witness ==
    /\ action = Action(SCIENTIFIC_OPERATION, null, FnPi)
    /\ before.currentOperand = null
    /\ before.previousOperand # null
    /\ before.operation # null
    /\ ~before.overwrite
    /\ state = [before EXCEPT !.currentOperand = StrPi, !.overwrite = TRUE]

\* C20: ClearAll makes currentOperand, previousOperand and operation null and
\* overwrite false and changes nothing else (history, angle unit and theme
\* stay); a ClearAll that follows a ClearAll leaves the state as it is.
C20_ClearAll ==
    [][(Returned /\ action'.type = CLEAR)
        => /\ state' = [state EXCEPT !.currentOperand = null,
                                     !.previousOperand = null,
                                     !.operation = null,
                                     !.overwrite = FALSE]
           /\ action.type = CLEAR => state' = state]_vars

\* C20 witness: after 5 % the calculator was cleared twice: the fourth
\* action is the second ClearAll, it changed nothing, and the entry of 5 %
\* is still the history.
C20_Witness ==
    /\ steps = 4
    /\ action.type = CLEAR
    /\ state = before
    /\ state.currentOperand = null
    /\ ~state.overwrite
    /\ state.history = <<[expression |-> <<"5", "%">>,
                          result |-> <<"0", ".", "0", "5">>]>>

\* C21: ClearHistory makes the history empty and changes no other field:
\* currentOperand, previousOperand, operation, overwrite, the angle unit and
\* the theme stay as they were.
C21_ClearHistory ==
    [][(Returned /\ action'.type = CLEAR_HISTORY)
        => state' = [state EXCEPT !.history = <<>>]]_vars

\* C21 witness: with ten entries stored and both operands and an operator
\* entered, the history was cleared: it is empty and the entry is intact.
C21_Witness ==
    /\ action.type = CLEAR_HISTORY
    /\ Len(before.history) = 10
    /\ before.currentOperand # null
    /\ before.previousOperand # null
    /\ before.operation # null
    /\ state = [before EXCEPT !.history = <<>>]

\* C22: RecallHistory(value) sets currentOperand to value and overwrite to
\* true whatever the state, and changes nothing else (previousOperand,
\* operation and history stay); recalled while an operation is pending, the
\* value is the right-hand operand of the Evaluate that follows.
C22_RecallHistory ==
    [][/\ (Returned /\ action'.type = SET_HISTORY_ITEM)
          => state' = [state EXCEPT !.currentOperand = action'.digit,
                                    !.overwrite = TRUE]
       /\ (Returned /\ action.type = SET_HISTORY_ITEM /\ action'.type = EVALUATE
           /\ state.operation # null /\ state.previousOperand # null)
          => state'.history[1].expression
                 = state.previousOperand \o <<" ">> \o state.operation
                       \o <<" ">> \o action.digit]_vars

\* C22 witness: with a left operand and + staged and no right operand, the
\* stored result "9" (no key of these runs types it) was recalled: it is the
\* current operand and the staged operand and operator are untouched.
C22_Witness ==
    /\ action = Action(SET_HISTORY_ITEM, <<"9">>, null)
    /\ before.currentOperand = null
    /\ before.previousOperand # null
    /\ before.operation = OpAdd
    /\ ~before.overwrite
    /\ state = [before EXCEPT !.currentOperand = <<"9">>, !.overwrite = TRUE]

\* C23: an action whose kind the reducer does not recognize, and a
\* ScientificOperation whose function name it does not recognize, return the
\* state unchanged in every field.
C23_UnrecognizedIsIdentity ==
    [][(Returned
        /\ \/ action'.type \notin
                {ADD_DIGIT, CHOOSE_OPERATION, CLEAR, DELETE_DIGIT, EVALUATE,
                 PERCENT, TOGGLE_SIGN, CLEAR_HISTORY, SET_HISTORY_ITEM,
                 SCIENTIFIC_OPERATION, TOGGLE_UNITS, SET_THEME}
           \/ action'.type = SCIENTIFIC_OPERATION
              /\ action'.operation \notin ScientificFns)
        => state' = state]_vars

\* C23 witness: with both operands, an operator and a history entry present,
\* the function name "cbrt" was dispatched and every field is as before.
C23_Witness ==
    /\ action = Action(SCIENTIFIC_OPERATION, null, <<"c", "b", "r", "t">>)
    /\ before.currentOperand # null
    /\ before.previousOperand # null
    /\ before.operation # null
    /\ before.history # <<>>
    /\ state = before

\* Whether the string s begins with a decimal numeral, which is what parsing
\* needs: an optional sign, then a digit, or a "." and a digit, or the
\* infinity sentinel.
RefParses(s) ==
    LET body == IF s # <<>> /\ s[1] \in {"-", "+"} THEN Tail(s) ELSE s
    IN  /\ body # <<>>
        /\ \/ IsDigit(body[1])
           \/ body[1] = "." /\ Len(body) >= 2 /\ IsDigit(body[2])
           \/ startsWith(body, StrInfinity)

\* C24: when previousOperand or currentOperand does not parse as a number
\* (".", "-", "", "NaN"), the result of applying the pending operator, any
\* of the five, is the empty string: Evaluate stores it as currentOperand
\* and as the entry's result, a chained ChooseOperation as previousOperand.
C24_ApplyUnparsable ==
    [][(Returned /\ state.operation # null /\ state.currentOperand # null
        /\ state.previousOperand # null
        /\ (~RefParses(state.previousOperand) \/ ~RefParses(state.currentOperand)))
        => /\ action'.type = EVALUATE
              => /\ state'.currentOperand = <<>>
                 /\ state'.history[1].result = <<>>
           /\ action'.type = CHOOSE_OPERATION
              => state'.previousOperand = <<>>]_vars

\* C24 witness: "-" divided by "." was evaluated: the operand and the
\* entry's result are the empty string.
C24_Witness ==
    /\ action.type = EVALUATE
    /\ before.previousOperand = <<"-">>
    /\ before.operation = OpDiv
    /\ before.currentOperand = <<".">>
    /\ state.currentOperand = <<>>
    /\ state.history = <<[expression |-> <<"-", " ", "U+00F7", " ", ".">>,
                          result |-> <<>>]>>

\* Whether the string s is a numeral of zero: it parses and holds no digit
\* but 0.
RefIsZero(s) ==
    /\ RefParses(s)
    /\ \A k \in 1..Len(s) : s[k] \in {"-", "+", ".", "0"}

\* C25: Evaluate of a division whose right operand is zero and whose left
\* operand is a number is no no-op: currentOperand becomes "Infinity", with
\* the sign of the quotient, for a non-zero left operand and "NaN" for a
\* zero one; previousOperand and operation are cleared, overwrite is set and
\* the entry {"<prev> U+00F7 <cur>", result} is put at the front of the
\* history, as for every other result.
C25_DivisionByZero ==
    [][(Returned /\ action'.type = EVALUATE /\ state.operation = OpDiv
        /\ state.currentOperand # null /\ state.previousOperand # null
        /\ RefIsZero(state.currentOperand) /\ RefParses(state.previousOperand))
        => LET prev == state.previousOperand
               cur == state.currentOperand
               sign == IF (prev[1] = "-") # (cur[1] = "-") THEN <<"-">> ELSE <<>>
               result == IF RefIsZero(prev) THEN StrNaN ELSE sign \o StrInfinity
               entry == [expression |-> prev \o <<" ", "U+00F7", " ">> \o cur,
                         result |-> result]
           IN  /\ state' # state
               /\ state' = [state EXCEPT
                      !.currentOperand = result,
                      !.previousOperand = null,
                      !.operation = null,
                      !.overwrite = TRUE,
                      !.history = SubSeq(<<entry>> \o state.history, 1,
                          IF Len(state.history) < 10 THEN Len(state.history) + 1
                          ELSE 10)]]_vars

\* C25 witness: 2 divided by 0 was evaluated: the operand is "Infinity" and
\* the history holds the entry of the division.
C25_Witness ==
    /\ action.type = EVALUATE
    /\ before.previousOperand = <<"2">>
    /\ before.operation = OpDiv
    /\ before.currentOperand = <<"0">>
    /\ state.currentOperand = StrInfinity
    /\ state.overwrite
    /\ state.history = <<[expression |-> <<"2", " ", "U+00F7", " ", "0">>,
                          result |-> StrInfinity]>>

\* The two strings the not-a-number sentinel is held as: the rendering of the
\* double, and the empty string evaluate returns.
NaNSentinels == {StrNaN, <<>>}

\* C26: once currentOperand (or, for a pending operation, previousOperand)
\* holds the not-a-number sentinel, every computation on it yields the
\* sentinel again: Percent, ToggleSign and each unary ScientificOperation in
\* currentOperand, Evaluate in currentOperand, a chained ChooseOperation in
\* previousOperand.
C26_SentinelPropagates ==
    [][(Returned /\ state.currentOperand # null)
        => /\ (state.currentOperand \in NaNSentinels
               /\ \/ action'.type \in {PERCENT, TOGGLE_SIGN}
                  \/ action'.type = SCIENTIFIC_OPERATION
                     /\ action'.operation \in UnaryFns)
              => state'.currentOperand \in NaNSentinels
           /\ (state.previousOperand # null /\ state.operation # null
               /\ (state.currentOperand \in NaNSentinels
                   \/ state.previousOperand \in NaNSentinels))
              => /\ action'.type = EVALUATE
                    => state'.currentOperand \in NaNSentinels
                 /\ action'.type = CHOOSE_OPERATION
                    => state'.previousOperand \in NaNSentinels]_vars

\* C26, a case the code agrees with: sqrt of the operand "NaN" is "NaN".
C26_Agreed ==
    /\ action = Action(SCIENTIFIC_OPERATION, null, FnSqrt)
    /\ before.currentOperand = StrNaN
    /\ state.currentOperand = StrNaN

\* Integer numerals and the integers they denote.
IsIntegerText(s) ==
    IsNatural(s) \/ (s # <<>> /\ s[1] = "-" /\ IsNatural(Tail(s)))

RefInt(s) == IF s[1] = "-" THEN 0 - DigitsToNat(Tail(s)) ELSE DigitsToNat(s)

RefIntText(n) == IF n < 0 THEN <<"-">> \o NatToDigits(0 - n) ELSE NatToDigits(n)

RefAbs(n) == IF n < 0 THEN 0 - n ELSE n

RECURSIVE RefPower(_, _)
RefPower(a, b) == IF b = 0 THEN 1 ELSE a * RefPower(a, b - 1)

\* The integers at which the operator has an integer value, and that value,
\* as arithmetic defines it.
RefBinaryDefined(op, a, b) ==
    IF op = OpDiv THEN b # 0 /\ RefAbs(a) % RefAbs(b) = 0
    ELSE IF op = OpPow THEN b >= 0
    ELSE TRUE

RefBinary(op, a, b) ==
    IF op = OpAdd THEN a + b
    ELSE IF op = OpSub THEN a - b
    ELSE IF op = OpMul THEN a * b
    ELSE IF op = OpDiv
    THEN (IF (a < 0) # (b < 0) THEN 0 - 1 ELSE 1) * (RefAbs(a) \div RefAbs(b))
    ELSE RefPower(a, b)

\* C27: for integer numerals a and b and each operator of +, -, *, division
\* and ^, the result of applying the operator is the canonical numeral of
\* the arithmetic result on the integers a and b denote, wherever that
\* result is an integer; Evaluate stores it in currentOperand, a chained
\* ChooseOperation in previousOperand.
C27_ApplyMatchesArithmetic ==
    [][(Returned /\ state.operation # null /\ state.currentOperand # null
        /\ state.previousOperand # null
        /\ IsIntegerText(state.previousOperand)
        /\ IsIntegerText(state.currentOperand)
        /\ RefBinaryDefined(state.operation, RefInt(state.previousOperand),
                            RefInt(state.currentOperand)))
        => LET result == RefIntText(RefBinary(state.operation,
                                        RefInt(state.previousOperand),
                                        RefInt(state.currentOperand)))
           IN  /\ action'.type = EVALUATE => state'.currentOperand = result
               /\ action'.type = CHOOSE_OPERATION
                  => state'.previousOperand = result]_vars

\* C27 witness: -2 ^ 3 was evaluated to "-8".
C27_Witness ==
    /\ action.type = EVALUATE
    /\ before.previousOperand = <<"-", "2">>
    /\ before.operation = OpPow
    /\ before.currentOperand = <<"3">>
    /\ state.currentOperand = <<"-", "8">>
    /\ state.history[1].result = <<"-", "8">>

\* The state that differs from s in the angle unit only.
OtherUnit(s) == [s EXCEPT !.isRadians = ~s.isRadians]

\* C28: for every action but ScientificOperation(sin), (cos) and (tan), the
\* reducer maps the state and the state that differs from it in the angle
\* unit only to two states that again differ in the angle unit only.
C28_AngleUnitOnlyTrig ==
    [][(Returned
        /\ ~(action'.type = SCIENTIFIC_OPERATION
             /\ action'.operation \in {FnSin, FnCos, FnTan}))
        => reducer(OtherUnit(state), action') = OtherUnit(state')]_vars

\* C28 witness: in degrees, the operand "5" was squared to "25"; in radians
\* the same action gives the same state but for the unit.
C28_Witness ==
    /\ action = Action(SCIENTIFIC_OPERATION, null, FnSquare)
    /\ ~before.isRadians
    /\ before.currentOperand = <<"5">>
    /\ state.currentOperand = <<"2", "5">>
    /\ ~state.isRadians
    /\ reducer(OtherUnit(before), action) = OtherUnit(state)

\* C29: the assistant reaches the reducer only on success.  The step in which
\* a solve request is settled dispatches exactly one SET_HISTORY_ITEM action
\* whose digit is the text of the numeric result when the request resolved,
\* and dispatches nothing and leaves the calculator state as it was when the
\* request was rejected; no other step of the assistant (opening or closing
\* the panel, issuing a request, settling an explanation) dispatches anything.
C29_AiDispatchesOnlyOnSuccess ==
    [][LET solved == {k \in DOMAIN pending :
                          pending[k].kind = "solve" /\ pending' = Without(k)}
       IN  /\ \A k \in solved :
                IF pending[k].ok
                THEN /\ steps' = steps + 1
                     /\ action' = Action(SET_HISTORY_ITEM, toString(pending[k].result), null)
                     /\ state' = reducer(state, action')
                ELSE /\ steps' = steps
                     /\ action' = action
                     /\ state' = state
           /\ (solved = {} /\ aiVars' # aiVars)
                => (steps' = steps /\ action' = action /\ state' = state)]_vars

\* A rejected solve, then a resolved one, the first action of the session: the
\* panel shows the apology and the result, and the calculator holds "8".
C29_Witness ==
    /\ steps = 1
    /\ action = Action(SET_HISTORY_ITEM, <<"8">>, null)
    /\ before = InitialState(<<>>, TRUE, ThemeOcean)
    /\ state.currentOperand = <<"8">>
    /\ pending = <<>>
    /\ Len(messages) = 5
    /\ messages[2].content = <<"sorry">>
    /\ messages[5] = Message("ai", ResultPrefix \o <<"8">>, "result")

\* C30: the asynchronous call never races with the reducer.  While a solve
\* request is in flight an action of the user is reduced as it is without
\* one (the next state is the reducer's, the assistant's state is left
\* alone); nothing of the assistant happens while the reducer is inside a
\* call; and the step that applies the reply is one reduction, from idle to
\* idle, that sets currentOperand to the result's text and overwrite, and
\* leaves previousOperand, operation, history and all else as the actions
\* reduced meanwhile left them.
C30_ResultAppliedAtomically ==
    [][/\ (/\ \E k \in DOMAIN pending : pending[k].kind = "solve"
           /\ pending' = pending
           /\ steps' = steps + 1)
            => (state' = reducer(state, action') /\ aiVars' = aiVars)
       /\ pc = "factorial" => aiVars' = aiVars
       /\ \A k \in DOMAIN pending :
            (pending[k].kind = "solve" /\ pending[k].ok /\ pending' = Without(k))
                => /\ pc = "idle" /\ pc' = "idle"
                   /\ steps' = steps + 1
                   /\ action'.type = SET_HISTORY_ITEM
                   /\ state' = [state EXCEPT
                                    !.currentOperand = toString(pending[k].result),
                                    !.overwrite = TRUE]]_vars

\* "3" and "+" entered while the request was in flight, then the reply 8:
\* the calculator shows 3 + 8.
C30_Witness ==
    /\ steps = 3
    /\ pending = <<>>
    /\ action = Action(SET_HISTORY_ITEM, <<"8">>, null)
    /\ before.previousOperand = <<"3">>
    /\ before.operation = OpAdd
    /\ before.currentOperand = null
    /\ state = [before EXCEPT !.currentOperand = <<"8">>, !.overwrite = TRUE]

\* C32: in every state the buttons and keys lead to, operation is null exactly
\* when previousOperand is null: a pending operator has a staged left operand
\* and a staged left operand has a pending operator.
C32_OperatorIffLeftOperand ==
    (state.operation = null) <=> (state.previousOperand = null)

\* A pending operator replaced by another while the left operand stays staged.
C32_Witness ==
    /\ action.type = CHOOSE_OPERATION
    /\ before.previousOperand # null
    /\ before.currentOperand = null
    /\ before.operation # action.operation
    /\ state.operation = action.operation
    /\ state.previousOperand = before.previousOperand

\* C33: history entries are never edited in place.  Across one action the new
\* history is the old one, or empty after CLEAR_HISTORY, or one new entry
\* followed by the first nine-or-fewer old entries in their order, and then
\* the new entry's result is the currentOperand of the state produced.
C33_HistoryNeverEdited ==
    [][Returned =>
        LET old == state.history
            new == state'.history
            kept == IF Len(old) < HistoryLimit THEN Len(old) ELSE HistoryLimit - 1
        IN  \/ new = old
            \/ action'.type = CLEAR_HISTORY /\ new = <<>>
            \/ /\ new # <<>>
               /\ Tail(new) = SubSeq(old, 1, kept)
               /\ new[1].result = state'.currentOperand]_vars

\* = with ten entries stored: the new entry leads, the nine newest follow and
\* the oldest is gone.
C33_Witness ==
    /\ action.type = EVALUATE
    /\ Len(before.history) = HistoryLimit
    /\ Len(state.history) = HistoryLimit
    /\ state.history[1].result = state.currentOperand
    /\ state.history[1] # before.history[1]
    /\ Tail(state.history) = SubSeq(before.history, 1, HistoryLimit - 1)

\* C34: CHOOSE_OPERATION changes neither history nor overwrite in any of its
\* four cases; the intermediate result of a chain goes to previousOperand
\* alone and is not recorded.
C34_ChooseOperationFrame ==
    [][(Returned /\ action'.type = CHOOSE_OPERATION)
        => /\ state'.history = state.history
           /\ state'.overwrite = state.overwrite
           /\ (state.currentOperand # null /\ state.previousOperand # null)
                => /\ state'.previousOperand = evaluate(state)
                   /\ state'.currentOperand = null]_vars

\* A chain: the second operator computes the intermediate result, which is
\* neither of the operands, and the history is as it was.
C34_Witness ==
    /\ action.type = CHOOSE_OPERATION
    /\ before.previousOperand # null
    /\ before.currentOperand # null
    /\ state.previousOperand = evaluate(before)
    /\ state.previousOperand \notin {before.previousOperand, before.currentOperand}
    /\ state.history = before.history

\* The actions that edit the operand.
EditTypes ==
    {ADD_DIGIT, DELETE_DIGIT, PERCENT, TOGGLE_SIGN, SCIENTIFIC_OPERATION,
     SET_HISTORY_ITEM}

\* C35: a pending binary operation survives operand editing.  ADD_DIGIT,
\* DELETE_DIGIT, PERCENT, TOGGLE_SIGN, SCIENTIFIC_OPERATION and
\* SET_HISTORY_ITEM change neither previousOperand nor operation, so in
\* sessions where 6 and - are staged and only these follow, = with an operand
\* present computes 6 - operand and records that expression.
C35_PendingOperationSurvives ==
    [][/\ (Returned /\ action'.type \in EditTypes)
            => /\ state'.previousOperand = state.previousOperand
               /\ state'.operation = state.operation
       /\ (Returned /\ action'.type = EVALUATE /\ state.operation # null
                /\ state.currentOperand # null)
            => LET staged == [state EXCEPT !.previousOperand = <<"6">>,
                                           !.operation = OpSub]
               IN  /\ state'.currentOperand = evaluate(staged)
                   /\ state'.history[1].expression
                        = <<"6", " ">> \o OpSub \o <<" ">> \o state.currentOperand]_vars

\* 2 typed and negated after 6 and -, then =: the calculator shows 8.
C35_Witness ==
    /\ steps = 3
    /\ action.type = EVALUATE
    /\ before.currentOperand = <<"-", "2">>
    /\ state.currentOperand = <<"8">>
    /\ state.history[1].expression = <<"6", " ", "-", " ", "-", "2">>

\* C36, as stated: in every reachable state overwrite = true implies that
\* currentOperand is not null.
C36_OverwriteImpliesOperand ==
    state.overwrite => state.currentOperand # null

\* C36, amended: in every reachable state overwrite = true implies that
\* currentOperand is not null or that an operator is pending with its left
\* operand staged (CHOOSE_OPERATION has moved the value to previousOperand
\* and left the flag as it was).
C36_OverwriteImpliesOperandOrPending ==
    state.overwrite
        => \/ state.currentOperand # null
           \/ state.previousOperand # null /\ state.operation # null

\* An operator chosen on a result: the value is staged, the operand is null
\* and the flag is still set.
C36_Witness ==
    /\ action.type = CHOOSE_OPERATION
    /\ before.overwrite
    /\ before.currentOperand # null
    /\ state.overwrite
    /\ state.currentOperand = null
    /\ state.previousOperand = before.currentOperand

\* C37: EVALUATE is idempotent.  In every reachable state the reducer applied
\* twice with EVALUATE gives what it gives applied once, and an EVALUATE
\* dispatched right after an EVALUATE leaves the state as it is: no history
\* entry is added and the last operation is not repeated.
C37_EvaluateIdempotent ==
    [][Returned =>
        LET eq == Action(EVALUATE, null, null)
        IN  /\ reducer(reducer(state', eq), eq) = reducer(state', eq)
            /\ (action.type = EVALUATE /\ action'.type = EVALUATE)
                    => state' = state]_vars

\* = pressed on the result of a calculation: the one entry and the result
\* stay.
C37_Witness ==
    /\ action.type = EVALUATE
    /\ before = state
    /\ state.overwrite
    /\ state.previousOperand = null
    /\ Len(state.history) = 1
    /\ state.currentOperand = state.history[1].result

\* C31: persistence follows the committed state.  After every action that
\* changes history, isRadians or theme the three items are rewritten, so that
\* the stored history, read back, is the history in memory (ten entries at
\* most); and a write that is dropped or fails changes nothing in memory: the
\* calculator stays in service with the state the reducer returned.
C31_PersistenceFollowsState ==
    [][Returned =>
        /\ state' = reducer(state, action')
        /\ pc' = "idle"
        /\ (state'.history # state.history \/ state'.isRadians # state.isRadians
                \/ state'.theme # state.theme)
            => /\ storage' = Persisted(state')
               /\ parse(storage'.history, 2) = state'.history
               /\ Len(parse(storage'.history, 2)) <= HistoryLimit]_vars

\* A calculation on top of ten stored entries, written: the stored text reads
\* back as the ten entries in memory, the new one first.
C31_Written ==
    /\ pc = "idle"
    /\ action.type = EVALUATE
    /\ Len(before.history) = HistoryLimit
    /\ state.history[1].result = <<"2", "5">>
    /\ storage = Persisted(state)
    /\ storage # Persisted(before)
    /\ parse(storage.history, 2) = state.history
    /\ Len(parse(storage.history, 2)) = HistoryLimit

\* C38: text typed into the assistant's prompt field is not calculator input.
\* In sessions where, with the panel open, keys are pressed in the prompt
\* field only, no step taken while the panel is open reduces an action or
\* changes the calculator state.
C38_PromptKeysDispatchNothing ==
    [][showAi => (steps' = steps /\ action' = action /\ state' = state)]_vars

\* C39: at most one request of the assistant is in flight at any time.  No
\* step leaves two requests in flight; while isLoading is true no step issues
\* a request; and the step that settles the request of the mounted panel
\* sets isLoading to false.
C39_OneRequestInFlight ==
    [][/\ Len(pending') <= 1
       /\ isLoading => Len(pending') <= Len(pending)
       /\ \A k \in DOMAIN pending :
            (pending[k].live /\ pending' = Without(k)) => ~isLoading']_vars

\* A request issued and settled with the panel open: nothing is in flight
\* and the panel is ready for the next prompt.
C39_Agreed ==
    /\ showAi
    /\ ~isLoading
    /\ pending = <<>>
    /\ Len(messages) = 2
    /\ messages[1].role = "user"
    /\ messages[2].role = "ai"
====
